---- MODULE Spec2Model ----
(***************************************************************************)
(* epub-toolkit: the publication analysis pipeline (ZipEpub / Epub /       *)
(* utils / zipTools), the LCP decipher (Lcp) and the whole-archive         *)
(* decipher (Explorer.decipher), as state machines.                        *)
(*                                                                         *)
(* JavaScript values are tagged records (field t).  An operation that may  *)
(* throw returns [ok |-> BOOLEAN, v |-> value].  A string whose characters *)
(* the code looks at (paths, hrefs) is the sequence of its characters,     *)
(* where a run of characters the code never splits may be one atom:        *)
(* "OEBPS/ch1.xhtml" is <<"OEBPS", "/", "ch1", ".", "xhtml">>.  Binary     *)
(* strings and typed arrays are sequences of bytes, hex strings sequences  *)
(* of hex digits, base64 strings sequences of sextets (64 is '=').         *)
(***************************************************************************)
EXTENDS Integers, Sequences, FiniteSets, TLC

VARIABLES
  pkg,        \* what ZipEpub is constructed with: zip, license, keys
  locals,     \* getSpine: the license and user key the item analyses close over
  pc,         \* position of ZipEpub.analyze()
  validSpineItems, \* ZipEpub.getSpine: the spine item objects, in creation order
  toc,        \* the table of contents handed to every item analysis
  task,       \* per spine item: position of its analyzeSpineItem chain
  content,    \* per spine item: value flowing through the promise chain
  slots,      \* the result array of rsvp all(), one slot per input promise
  completion, \* history: the order in which the item promises settled
  outcome,    \* the settled value of the promise returned by analyze()
  lcpIn,      \* Lcp scenario: license, candidate keys, plaintext, iv
  lcpOut,     \* Lcp scenario: what the calls returned
  contextList,\* Lcp.contextList: the content-key cache of the Lcp singleton
  arc,        \* Explorer.decipher: the input archive and its arguments
  dpc,        \* Explorer.decipher: position
  dlocals,    \* Explorer.decipher: zip, license and protectedFileMap
  epubFiles,  \* Explorer.decipher: per entry, the value its promise settled to
  newZip,     \* Explorer.decipher: the entries of the generated archive
  zipEpub,    \* a ZipEpub object: its uid and _metadata fields
  calls,      \* the calls made on the ZipEpub object and how each ended
  tocInput,   \* TocParser: the navigation document handed to parse
  tocResult,  \* TocParser: the items, before and after setPositions
  inflight,   \* Lcp: the decipher calls in flight, each with its position
  derivations,\* Lcp: the cache key of every content key derived, in order
  utilCall,   \* a call of one of the pure functions of utils: its name and arguments
  utilResult, \* what that call returned
  webEpub,    \* a WebEpub object: its _manifest and _toc fields, and its server
  webCalls    \* the getToc calls made on the WebEpub object and how each ended

vars == <<pkg, locals, pc, validSpineItems, toc, task, content, slots, completion, outcome,
          lcpIn, lcpOut, contextList, arc, dpc, dlocals, epubFiles, newZip,
          zipEpub, calls, tocInput, tocResult, inflight, derivations,
          utilCall, utilResult, webEpub, webCalls>>

anVars  == <<pkg, locals, pc, validSpineItems, toc, task, content, slots, completion, outcome>>
lcpVars == <<lcpIn, lcpOut>>
decVars == <<arc, dpc, dlocals, epubFiles, newZip>>
objVars == <<zipEpub, calls>>
tocVars == <<tocInput, tocResult>>
ctxVars == <<inflight, derivations>>
utilVars == <<utilCall, utilResult>>
webVars == <<webEpub, webCalls>>

-----------------------------------------------------------------------------
(* Bounds *)
NumIds   == 3   \* manifest ids / spine documents a package may declare
MaxSpine == 3   \* itemrefs in a package document
MaxKeys  == 2   \* candidate user keys handed to getValidUserKey
MaxPlain == 70  \* longest plaintext of the decipher scenario, in bytes
MaxEntries == 3 \* entries of an archive handed to Explorer.decipher
MaxIdentifiers == 3 \* dc:identifier elements of a package document
MaxCalls == 2 \* calls made on one ZipEpub object
MaxNodes == 5 \* entries of a navigation document
MaxFlights == 3 \* decipher calls in flight at once
MaxEncrypted == 2 \* EncryptedData elements of an encryption.xml
MaxTocItems == 2 \* TOC items in one list of siblings
MaxWebNodes == 3 \* toc nodes of a manifest.json
ChunkBlocks == 2 \* cipher blocks in one decipher chunk

-----------------------------------------------------------------------------
(* JavaScript values *)
Null      == [t |-> "null"]
Undefined == [t |-> "undefined"]
Str(s)    == [t |-> "string", s |-> s]
Chars(c)  == [t |-> "chars", c |-> c]      \* a string, by its characters
Array(a)  == [t |-> "array", a |-> a]
Ok(v)     == [ok |-> TRUE, v |-> v]
Throw     == [ok |-> FALSE, v |-> Undefined]

Min(a, b) == IF a < b THEN a ELSE b

RECURSIVE SumSeq(_)
SumSeq(s) == IF s = <<>> THEN 0 ELSE Head(s) + SumSeq(Tail(s))

RECURSIVE Gcd(_, _)
Gcd(a, b) == IF b = 0 THEN a ELSE Gcd(b, a % b)

-----------------------------------------------------------------------------
(* Byte strings, hex and base64 (forge.util) *)
Byte(x) == (x + 1024) % 256

Take(s, n) == SubSeq(s, 1, Min(n, Len(s)))
Drop(s, n) == SubSeq(s, n + 1, Len(s))
\* String.prototype.substr(start, size) / ArrayBuffer.slice(a, b), 0-based
Slice(s, a, b) == SubSeq(s, a + 1, Min(b, Len(s)))

\* forge.util.hexToBytes: an odd first character is converted alone
\* a hex digit is 0..15 ('0'..'9', 'a'..'f') or 16..21 ('A'..'F'); parseInt(c, 16)
HexVal(c) == IF c >= 16 THEN c - 6 ELSE c

hexToBytes(hex) ==
  LET odd  == Len(hex) % 2
      rest == Drop(hex, odd)
  IN  (IF odd = 1 THEN <<HexVal(hex[1])>> ELSE <<>>)
      \o [i \in 1..(Len(rest) \div 2) |->
            16 * HexVal(rest[2 * i - 1]) + HexVal(rest[2 * i])]

\* the hex string of a byte string, in lower or in upper case
bytesToHex(b, upper) ==
  [i \in 1..(2 * Len(b)) |->
     LET n == IF i % 2 = 1 THEN b[(i + 1) \div 2] \div 16 ELSE b[i \div 2] % 16
     IN  IF upper /\ n >= 10 THEN n + 6 ELSE n]

\* forge.util.encode64 / decode64: 3 bytes <-> 4 sextets, '=' (64) padded
PadChar == 64
RECURSIVE encode64(_)
encode64(b) ==
  IF b = <<>> THEN <<>>
  ELSE LET b1 == b[1]
           b2 == IF Len(b) >= 2 THEN b[2] ELSE 0
           b3 == IF Len(b) >= 3 THEN b[3] ELSE 0
       IN  << b1 \div 4,
              (b1 % 4) * 16 + b2 \div 16,
              IF Len(b) >= 2 THEN (b2 % 16) * 4 + b3 \div 64 ELSE PadChar,
              IF Len(b) >= 3 THEN b3 % 64 ELSE PadChar >>
           \o encode64(Drop(b, 3))

RECURSIVE decode64(_)
decode64(s) ==
  IF Len(s) < 4 THEN <<>>
  ELSE LET e1 == s[1]  e2 == s[2]  e3 == s[3]  e4 == s[4]
       IN  << e1 * 4 + e2 \div 16 >>
           \o (IF e3 # PadChar THEN << (e2 % 16) * 16 + e3 \div 4 >> ELSE <<>>)
           \o (IF e3 # PadChar /\ e4 # PadChar
                 THEN << (e3 % 4) * 64 + e4 >> ELSE <<>>)
           \o decode64(Drop(s, 4))

-----------------------------------------------------------------------------
(* The AES-CBC primitive (forge.cipher).  The block cipher is a keyed       *)
(* byte-wise permutation of a 16-byte block: only its being a bijection    *)
(* that differs from key to key is used.  CBC chaining, the input and      *)
(* output buffers and finish()/unpad are forge's.                          *)
IV_BYTES_SIZE == 16
ZIP_COMPRESSION_METHOD == 8
\* the AES block is as long as the IV
BlockSize   == IV_BYTES_SIZE
AesKeySizes == {16, 24, 32}
\* CBC_CHUNK_SIZE is 1024 * 32 in Lcp.js, a whole number (2048) of cipher
\* blocks; the model keeps it a whole number of blocks, ChunkBlocks of them
CBC_CHUNK_SIZE == ChunkBlocks * BlockSize

KeyByte(key, j) == (key[j] + 3 * key[Len(key) + 1 - j]) % 256

EncryptBlock(key, blk) == [j \in 1..BlockSize |-> Byte(blk[j] + KeyByte(key, j))]
DecryptBlock(key, blk) == [j \in 1..BlockSize |-> Byte(blk[j] - KeyByte(key, j))]

\* PKCS#7 padding of the encrypting side (the LCP producer)
Pad(plain) ==
  LET n == BlockSize - (Len(plain) % BlockSize)
  IN  plain \o [i \in 1..n |-> n]

RECURSIVE CbcEncryptBlocks(_, _, _)
CbcEncryptBlocks(key, prev, padded) ==
  IF padded = <<>> THEN <<>>
  ELSE LET blk == [j \in 1..BlockSize |-> Byte(padded[j] + prev[j])]
           c   == EncryptBlock(key, blk)
       IN  c \o CbcEncryptBlocks(key, c, Drop(padded, BlockSize))

\* IV || AES-CBC(key, padded plaintext): how protected content is produced
Encrypt(key, iv, plain) == iv \o CbcEncryptBlocks(key, iv, Pad(plain))

\* forge.cipher.createDecipher + start: the key size and IV size are checked
createDecipher(key, iv) ==
  IF key.t \notin {"bytes", "binstr"} \/ Len(key.b) \notin AesKeySizes
     \/ Len(iv) # BlockSize
    THEN Throw
    ELSE Ok([key |-> key.b, prev |-> iv, input |-> <<>>, output |-> <<>>])

\* BlockCipher.update: every complete block of the input buffer is decrypted
RECURSIVE update(_, _)
update(d, buf) ==
  LET in == d.input \o buf
  IN  IF Len(in) < BlockSize THEN [d EXCEPT !.input = in]
      ELSE LET blk == Take(in, BlockSize)
               x   == DecryptBlock(d.key, blk)
               p   == [j \in 1..BlockSize |-> Byte(x[j] - d.prev[j])]
           IN  update([d EXCEPT !.input = Drop(in, BlockSize),
                                !.prev = blk,
                                !.output = d.output \o p], <<>>)

\* BlockCipher.finish + modes.cbc.unpad: the padding count is the last
\* output byte; on an overflow or a count above blockSize << 2 finish
\* returns false and leaves the output as it is
finish(d) ==
  LET out   == d.output
      count == IF out = <<>> THEN 0 ELSE out[Len(out)]
  IN  IF Len(d.input) % BlockSize > 0 \/ count > 4 * BlockSize THEN d
      ELSE [d EXCEPT !.output = Take(out, IF Len(out) > count THEN Len(out) - count ELSE 0)]

\* the reference CBC decryption of one whole ciphertext, for stating claims
RefDecrypt(key, enc) ==
  LET body == Drop(enc, BlockSize)
      raw  == [i \in 1..Len(body) |->
                Byte(body[i] - KeyByte(key, ((i - 1) % BlockSize) + 1) - enc[i])]
  IN  raw

-----------------------------------------------------------------------------
(* Lcp.js *)
Bytes(b)  == [t |-> "bytes", b |-> b]     \* Uint8Array / ArrayBuffer
BinStr(b) == [t |-> "binstr", b |-> b]    \* forge binary string
Hex(h)    == [t |-> "hex", h |-> h]       \* a user key, as handed in

\* utils/index.js isEmpty
isEmpty(v) ==
  \/ v.t \in {"undefined", "null"}
  \/ v.t = "string" /\ v.s = ""
  \/ v.t = "chars" /\ v.c = <<>>
  \/ v.t = "text" /\ v.kind = "empty"
  \/ v.t \in {"bytes", "binstr"} /\ v.b = <<>>
  \/ v.t = "hex" /\ v.h = <<>>
  \/ v.t = "array" /\ v.a = <<>>

\* Uint8Array.prototype.set(array, offset): a RangeError when it does not fit
TypedSet(buf, arr, off) ==
  IF off < 0 \/ off + Len(arr) > Len(buf) THEN Throw
  ELSE Ok([i \in 1..Len(buf) |->
            IF i > off /\ i <= off + Len(arr) THEN arr[i - off] ELSE buf[i]])

\* where a drained chunk goes in decryptedBuffer: index is already one chunk
\* further and counts the IV
chunkOffsetKeepIv(index) == index - CBC_CHUNK_SIZE
chunkOffset(index) == index - CBC_CHUNK_SIZE - IV_BYTES_SIZE

\* the do ... while loop of aesDecipherArrayBuffer, one iteration per call
RECURSIVE abLoop(_, _)
abLoop(st, enc) ==
  LET bytes == st.d.output
      put   == IF Len(bytes) > 0
                 THEN TypedSet(st.buf, bytes, chunkOffset(st.index))
                 ELSE Ok(st.buf)
      d2    == update([st.d EXCEPT !.output = <<>>],
                      Slice(enc, st.index, st.index + CBC_CHUNK_SIZE))
      st2   == [d |-> d2,
                index |-> st.index + CBC_CHUNK_SIZE,
                realSize |-> st.realSize + Len(bytes),
                buf |-> put.v,
                ok |-> TRUE]
  IN  IF ~put.ok THEN [st EXCEPT !.ok = FALSE]
      ELSE IF st2.index < Len(enc) THEN abLoop(st2, enc) ELSE st2

\* after the loop: the last drained chunk and what finish() adds, then the
\* buffer is cut to the size that was really written
abFinish(st) ==
  IF ~st.ok THEN Throw
  ELSE LET bytes    == finish(st.d).output
           realSize == st.realSize + Len(bytes)
           put      == TypedSet(st.buf, bytes, chunkOffset(st.index))
       IN  IF ~put.ok THEN Throw
           ELSE Ok(Bytes(Take(put.v, realSize)))

abStart(dec, enc) ==
  IF ~dec.ok THEN Throw
  ELSE abFinish(abLoop([d |-> dec.v, index |-> IV_BYTES_SIZE, realSize |-> 0,
                        buf |-> [i \in 1..Len(enc) |-> 0], ok |-> TRUE], enc))

aesDecipherArrayBuffer(key, encrypted) ==
  IF encrypted.t # "bytes" THEN Throw
  ELSE abStart(createDecipher(key, Take(encrypted.b, IV_BYTES_SIZE)), encrypted.b)

\* the do ... while loop of aesDecipherBinary
RECURSIVE binLoop(_, _)
binLoop(st, enc) ==
  LET st2 == [d |-> update([st.d EXCEPT !.output = <<>>],
                           Slice(enc, st.index, st.index + CBC_CHUNK_SIZE)),
              index |-> st.index + CBC_CHUNK_SIZE,
              decrypted |-> st.decrypted \o st.d.output]
  IN  IF st2.index < Len(enc) THEN binLoop(st2, enc) ELSE st2

binFinish(st) == Ok(BinStr(st.decrypted \o finish(st.d).output))

binStart(dec, enc) ==
  IF ~dec.ok THEN Throw
  ELSE binFinish(binLoop([d |-> dec.v, index |-> IV_BYTES_SIZE, decrypted |-> <<>>], enc))

aesDecipherBinary(key, encrypted) ==
  IF encrypted.t # "binstr" THEN Throw
  ELSE binStart(createDecipher(key, Take(encrypted.b, IV_BYTES_SIZE)), encrypted.b)

decipher(key, encryptedData, dataType) ==
  IF dataType = "arraybuffer" THEN aesDecipherArrayBuffer(key, encryptedData)
  ELSE aesDecipherBinary(key, encryptedData)

\* the members of a license that Lcp.js reads
HasEncryption(license) == license.t = "license"

\* forge.util.hexToBytes of a user key: a TypeError unless it is a string
userKeyBytes(userKey) ==
  IF userKey.t = "hex" THEN Ok(BinStr(hexToBytes(userKey.h))) ELSE Throw

decipherWithKey(k, encryptedData) ==
  IF ~k.ok THEN Throw ELSE decipher(k.v, encryptedData, "binary")

getContentKey(license, userKey) ==
  IF ~HasEncryption(license) THEN Throw
  ELSE decipherWithKey(userKeyBytes(userKey), BinStr(decode64(license.encrypted_value)))

contextOf(k) == IF k.ok THEN Ok([contentKey |-> k.v]) ELSE Throw
createContext(license, userKey) == contextOf(getContentKey(license, userKey))

\* the key of contextList, `${license.id}:${key}`
ContextKey(license, key) ==
  <<IF license.t = "license" THEN Str(license.id) ELSE Undefined, key>>

\* this.contextList[contextKey] = context
remember(list, ck, c) ==
  IF ~c.ok THEN [ok |-> FALSE, v |-> Undefined, list |-> list]
  ELSE [ok |-> TRUE, v |-> c.v, list |-> (ck :> c.v) @@ list]

\* getContext: [ok, v (the context), list (contextList afterwards)]
getContext(list, license, key) ==
  IF license.t \in {"null", "undefined"} THEN [ok |-> FALSE, v |-> Undefined, list |-> list]
  ELSE IF ContextKey(license, key) \in DOMAIN list
    THEN [ok |-> TRUE, v |-> list[ContextKey(license, key)], list |-> list]
    ELSE remember(list, ContextKey(license, key), createContext(license, key))

withList(r, list) == [ok |-> r.ok, v |-> r.v, list |-> list]

decipherInContext(c, fileData) ==
  IF ~c.ok THEN c
  ELSE withList(decipher(c.v.contentKey, fileData, "arraybuffer"), c.list)

decipherData(list, fileData, license, userKey) ==
  decipherInContext(getContext(list, license, userKey), fileData)

\* raw deflate (pako), as a marker byte followed by the bytes shifted by one
Deflate(b) == <<1>> \o [i \in 1..Len(b) |-> Byte(b[i] + 1)]
inflateRaw(b) ==
  IF b = <<>> \/ b[1] # 1 THEN Throw
  ELSE Ok([i \in 1..(Len(b) - 1) |-> Byte(b[i + 1] - 1)])

\* unzipToString / unzipToArrayBuffer
unzip(u, fetchMode, list) ==
  IF ~u.ok THEN [ok |-> FALSE, v |-> Undefined, list |-> list]
  ELSE [ok |-> TRUE, list |-> list,
        v |-> IF fetchMode = Str("text") THEN BinStr(u.v) ELSE Bytes(u.v)]

\* what decipherFile does with the deciphered raw data
afterDecipherData(raw, fetchMode, protection) ==
  IF ~raw.ok THEN raw
  ELSE IF ~isEmpty(protection) /\ protection.compressionMethod = ZIP_COMPRESSION_METHOD
    THEN unzip(inflateRaw(raw.v.b), fetchMode, raw.list)
    ELSE [ok |-> TRUE, list |-> raw.list,
          v |-> IF fetchMode = Str("text") THEN BinStr(raw.v.b) ELSE raw.v]

\* Lcp.decipherFile(fetchMode, fileData, protection, license, key)
decipherFile(list, fetchMode, fileData, protection, license, key) ==
  afterDecipherData(decipherData(list, fileData, license, key), fetchMode, protection)

decipherTextFile(list, fileData, protection, license, key) ==
  decipherFile(list, Str("text"), fileData, protection, license, key)

\* license.id === userKeyCheckDecrypted, false when the decryption threw
sameId(d, license) == IF d.ok THEN Ok(license.id = d.v.b) ELSE Ok(FALSE)

\* Lcp.checkValidity: key_check is read outside the try
checkValidity(userKey, license) ==
  IF ~HasEncryption(license) THEN Throw
  ELSE sameId(decipherWithKey(userKeyBytes(userKey), BinStr(decode64(license.key_check))),
              license)

\* validKeys.push(key) when the check says so
pushIfValid(valid, key, rest) ==
  IF ~valid.ok \/ ~rest.ok THEN Throw
  ELSE Ok((IF valid.v THEN <<key>> ELSE <<>>) \o rest.v)

\* the for ... of loop of getValidUserKey: the valid keys, in list order
RECURSIVE validKeysOf(_, _)
validKeysOf(license, keys) ==
  IF keys = <<>> THEN Ok(<<>>)
  ELSE pushIfValid(checkValidity(Head(keys), license), Head(keys),
                   validKeysOf(license, Tail(keys)))

\* Array.prototype.pop
PopFirst(a) == IF a = <<>> THEN Undefined ELSE a[1]
Pop(a) == IF a = <<>> THEN Undefined ELSE a[Len(a)]

popValid(validKeys) == IF ~validKeys.ok THEN Throw ELSE Ok(Pop(validKeys.v))

getValidUserKey(license, keys) ==
  IF isEmpty(license) \/ isEmpty(keys) THEN Ok(Undefined)
  ELSE popValid(validKeysOf(license, keys.a))

-----------------------------------------------------------------------------
(* Strings and paths (utils/index.js) *)
RECURSIVE split(_, _)
split(s, sep) ==
  IF \A k \in 1..Len(s) : s[k] # sep THEN <<s>>
  ELSE LET k == CHOOSE j \in 1..Len(s) : s[j] = sep /\ \A h \in 1..(j - 1) : s[h] # sep
       IN  <<SubSeq(s, 1, k - 1)>> \o split(SubSeq(s, k + 1, Len(s)), sep)

RECURSIVE join(_, _)
join(parts, sep) ==
  IF parts = <<>> THEN <<>>
  ELSE IF Len(parts) = 1 THEN parts[1]
  ELSE parts[1] \o <<sep>> \o join(Tail(parts), sep)

Front(s) == SubSeq(s, 1, Len(s) - 1)

indexOfIsZero(s, prefix) ==
  Len(prefix) <= Len(s) /\ SubSeq(s, 1, Len(prefix)) = prefix

\* the reducer of normalizePath, applied to one further part
normalizeStep(path, part) ==
  IF part = <<".", ".">> THEN join(Front(split(path, "/")), "/")
  ELSE IF part = <<".">> THEN path
  ELSE path \o (IF Len(path) = 0 THEN <<>> ELSE <<"/">>) \o part

RECURSIVE reduceParts(_, _)
reduceParts(path, parts) ==
  IF parts = <<>> THEN path
  ELSE reduceParts(normalizeStep(path, Head(parts)), Tail(parts))

\* reduce without an initial value: the first part is the first accumulator
normalizePath(path) ==
  LET parts == split(path, "/") IN reduceParts(Head(parts), Tail(parts))

makeAbsolutePath(path) ==
  IF path # <<>> /\ path[1] = "/" THEN path ELSE <<"/">> \o path

\* \w: the atoms that are runs of letters, digits and '_'
NonWord == {"/", ".", "#", "-", " ", "%20"}
IsWords(s) == \A k \in 1..Len(s) : s[k] \notin NonWord

\* /^(\w*)\/\w*\.opf$/
getBasePath(contentFilePath) ==
  IF contentFilePath.t # "chars" THEN Throw
  ELSE LET p == contentFilePath.c
           n == Len(p)
           hit == {k \in 1..n : /\ p[k] = "/"
                                /\ IsWords(SubSeq(p, 1, k - 1))
                                /\ n >= k + 2
                                /\ p[n] = "opf" /\ p[n - 1] = "."
                                /\ IsWords(SubSeq(p, k + 1, n - 2))}
       IN  IF hit = {} THEN Ok(<<>>)
           ELSE LET k == CHOOSE j \in hit : TRUE
                IN  Ok(SubSeq(p, 1, k - 1) \o <<"/">>)

\* "%20" is an escaped space; a '%' that starts no escape is a URIError
decodeURIComponent(uri) ==
  IF \E k \in 1..Len(uri) : uri[k] = "%" THEN Throw
  ELSE Ok([k \in 1..Len(uri) |-> IF uri[k] = "%20" THEN " " ELSE uri[k]])

-----------------------------------------------------------------------------
(* The archive (JSZip) and its documents.  zip.files maps an entry name to *)
(* [readable, data]; data is the text of the entry as a record of what the *)
(* selectors of the code can find in it, or the bytes of a protected one.  *)
BYTES_FORMAT       == "uint8array"
STRING_FORMAT      == "string"
ARRAYBUFFER_FORMAT == "arraybuffer"

ContainerPath  == <<"META-INF", "/", "container", ".", "xml">>
EncryptionPath == <<"META-INF", "/", "encryption", ".", "xml">>
LicensePath    == <<"META-INF", "/", "license", ".", "lcpl">>

Garbage   == [t |-> "text", kind |-> "garbage"]   \* not well-formed, not JSON
\* stands in for EmptyText where a failed read leaves a paragraph behind
LeftoverText ==
  [t |-> "text", kind |-> "xhtml",
   nodes |-> <<[tagName |-> "p", text |-> 1, id |-> Undefined, attribsId |-> Undefined,
                inBody |-> TRUE, inSvg |-> FALSE, src |-> Undefined,
                href |-> Undefined]>>]
EmptyText == [t |-> "text", kind |-> "empty"]     \* the string ''

\* zip.file(name): the entry of that name unless it is a folder
zipFile(zip, name) ==
  IF name \in DOMAIN zip /\ ~zip[name].dir THEN zip[name] ELSE Null

\* zipFile.async(format): the promise rejects when the entry cannot be read
async(entry, format) ==
  IF ~entry.readable THEN [ok |-> FALSE, v |-> Undefined, sync |-> FALSE]
  ELSE IF format = STRING_FORMAT \/ entry.data.t = "bytes" THEN Ok(entry.data)
  ELSE Ok([t |-> "uint8array", text |-> entry.data])

\* sync: thrown by the call itself (FileNotFoundError), not a rejection
getFile(zip, path, format) ==
  LET entry == zipFile(zip, normalizePath(path))
  IN  IF entry = Null THEN [ok |-> FALSE, v |-> Undefined, sync |-> TRUE]
      ELSE async(entry, format)

bytesToString(uint8array) == uint8array.text

\* cheerio.load(xmlData, {xmlMode: true}): htmlparser2 recovers from any
\* input, so text that is not markup gives a document no selector matches
EmptyDom == [t |-> "dom", kind |-> "none"]
parseXml(data) ==
  IF data = Undefined \/ data = Null THEN Throw
  ELSE LET xmlData == IF data.t = "uint8array" THEN bytesToString(data) ELSE data
       IN  IF xmlData.t = "text" /\ xmlData.kind \notin {"garbage", "json", "empty"}
             THEN Ok([xmlData EXCEPT !.t = "dom"])
             ELSE Ok(EmptyDom)

\* JSON.parse
JsonParse(text) ==
  IF text.t = "text" /\ text.kind = "json" THEN Ok(text.value) ELSE Throw

\* document('rootfile').attr('full-path')
getOpfFilePath(document) ==
  IF document = Undefined THEN Throw
  ELSE IF document.kind = "container" /\ document.rootfiles # <<>>
    THEN Ok(Chars(document.rootfiles[1]))
    ELSE Ok(Undefined)

\* opf('spine > itemref'), opf(`manifest > item[id="${idref}"]`),
\* opf('metadata > *'), opf('package').attr('unique-identifier')
SpineItemrefs(opf) == IF opf.kind = "opf" THEN opf.spine ELSE <<>>
ManifestItems(opf, idref) ==
  IF opf.kind = "opf" THEN LET Is(it) == it.id = idref IN SelectSeq(opf.manifest, Is)
  ELSE <<>>
MetadataEntries(opf) == IF opf.kind = "opf" THEN opf.metadata ELSE <<>>
UniqueIdentifier(opf) == IF opf.kind = "opf" THEN opf.uniqueIdentifier ELSE Undefined

\* .then(opfXml => ({basePath, opf: parseXml(opfXml.trim())}))
opfParsed(opfXml, basePath) ==
  IF ~opfXml.ok THEN Throw
  ELSE Ok([basePath |-> basePath, opf |-> parseXml(opfXml.v).v])

opfFetched(zip, opfFilePath, basePath) ==
  IF ~basePath.ok THEN Throw
  ELSE opfParsed(getFile(zip, opfFilePath.c, STRING_FORMAT), basePath.v)

\* .then(document => { ... getBasePath(opfFilePath); return getFile(...) })
opfLocated(zip, opfFilePath) ==
  IF ~opfFilePath.ok THEN Throw
  ELSE opfFetched(zip, opfFilePath.v, getBasePath(opfFilePath.v))

\* .then(parseXml, error => console.error(...)): a failed read goes on with
\* undefined
containerRead(container) ==
  IF container.ok THEN parseXml(container.v).v ELSE Undefined

containerFetched(zip, container) ==
  IF ~container.ok /\ container.sync THEN Throw
  ELSE opfLocated(zip, getOpfFilePath(containerRead(container)))

getOpfContent(zip) ==
  containerFetched(zip, getFile(zip, ContainerPath, BYTES_FORMAT))

-----------------------------------------------------------------------------
(* Package metadata, license and encryption manifest *)

\* ZipEpub.js extractMetadataEntry; an attribute that is absent is ""
extractMetadataEntry(entry) ==
  IF entry.tagName = "meta"
    THEN IF entry.property # ""
           THEN [key |-> entry.property, value |-> entry.text]
           ELSE [key |-> IF entry.name = "" THEN "undefined" ELSE entry.name,
                 value |-> entry.content]
    ELSE [key |-> entry.tagName, value |-> entry.text]

RECURSIVE metadataEach(_, _, _)
metadataEach(entries, uniqueIdentifier, fixedMetadata) ==
  IF entries = <<>> THEN fixedMetadata
  ELSE LET entry == Head(entries)
           data  == extractMetadataEntry(entry)
           skip  == /\ data.key \in DOMAIN fixedMetadata
                    /\ fixedMetadata[data.key] # ""
                    /\ data.key = "dc:identifier"
                    /\ entry.id # uniqueIdentifier
       IN  metadataEach(Tail(entries), uniqueIdentifier,
                        IF skip THEN fixedMetadata
                        ELSE (data.key :> data.value) @@ fixedMetadata)

metadataOf(c) ==
  IF ~c.ok THEN Throw
  ELSE Ok([t |-> "metadata",
           m |-> metadataEach(MetadataEntries(c.v.opf), UniqueIdentifier(c.v.opf), <<>>)])

\* ZipEpub.js getMetadata: an object, as the function from its keys
getMetadata(zip) == metadataOf(getOpfContent(zip))

\* stands in for isEpubFixedLayout where no publication counts as fixed
isNeverFixedLayout(meta) == FALSE
\* ZipEpub.js isEpubFixedLayout
isEpubFixedLayout(meta) ==
  /\ meta.t = "metadata"
  /\ "rendition:layout" \in DOMAIN meta.m
  /\ meta.m["rendition:layout"] = "pre-paginated"

parsedOrNull(parsed) == IF parsed.ok THEN parsed.v ELSE Null
licenseParsed(licenseJson) ==
  IF licenseJson.ok THEN parsedOrNull(JsonParse(licenseJson.v)) ELSE Null

getLcpLicense(zip) == licenseParsed(getFile(zip, LicensePath, STRING_FORMAT))

\* ZipEpub.getLicense: the license handed to the constructor, else the file
getLicense(license, zip) == IF license # Null THEN license ELSE getLcpLicense(zip)

\* parseInt of an attribute that is not there
NaN == 0 - 1

\* encryptionFile('EncryptedData').each(...): resources, as the function
\* from its keys; a later element with the same key replaces an earlier one.
\* An element records whether it has a KeyInfo > RetrievalMethod and a
\* KeyInfo > resource child, and the value of the attribute read from each
RECURSIVE encryptedDataEach(_, _)
encryptedDataEach(elements, resources) ==
  IF elements = <<>> THEN Ok(resources)
  ELSE LET element == Head(elements)
           uri  == decodeURIComponent(element.uri)
           type == IF element.resource THEN element.resourceXmlns
                   ELSE IF element.retrievalMethod THEN element.retrievalType
                   ELSE Null
           data == [t |-> "protection",
                    algorithm |-> element.algorithm,
                    compressionMethod |->
                      IF element.compression THEN element.method ELSE NaN,
                    originalLength |->
                      IF element.compression THEN element.originalLength ELSE NaN,
                    type |-> type]
       IN  IF ~uri.ok THEN Throw
           ELSE encryptedDataEach(Tail(elements),
                                  (makeAbsolutePath(uri.v) :> data) @@ resources)

EncryptedData(encryptionFile) ==
  IF encryptionFile.kind = "encryption" THEN encryptionFile.entries ELSE <<>>

extractEncryptionsData(encryptionFile) ==
  encryptedDataEach(EncryptedData(encryptionFile), <<>>)

resourcesOrNone(r) == IF r.ok THEN r.v ELSE <<>>
encryptionRead(xmlData) ==
  IF xmlData.ok THEN resourcesOrNone(extractEncryptionsData(parseXml(xmlData.v).v))
  ELSE <<>>

\* ZipEpub.js / zipTools.js getProtectedFiles: {} on any failure
getProtectedFiles(zip) == encryptionRead(getFile(zip, EncryptionPath, STRING_FORMAT))

\* stands in for Lookup where every path counts as listed
LookupListed(map, key) == [t |-> "protection", type |-> Undefined]
\* protectedFiles[path]
Lookup(map, key) == IF key \in DOMAIN map THEN map[key] ELSE Undefined

-----------------------------------------------------------------------------
(* The navigation document (TocParser).  A navPoint or li element is       *)
(* [hasChildren, label, href, kids, nested]: kids are its child elements   *)
(* of the same tag, nested the li elements of a child ol.  An item without *)
(* an items array has items = <<>>.                                        *)

\* extractNavLiInfos / extractNavPointInfos: .attr(...).trim() on a link or
\* content element that is not there is a TypeError
extractNavInfos(item, parent) ==
  IF item.href = Undefined THEN Throw
  ELSE Ok([label |-> item.label, href |-> item.href.c,
           parent |-> IF parent = Null THEN Str("false")
                      ELSE [href |-> parent.href, label |-> parent.label,
                            parent |-> parent.parent]])

\* parseNavItem, over item and its next siblings
RECURSIVE parseNavItem(_, _)
parseNavItem(siblings, parent) ==
  IF siblings = <<>> THEN Ok(<<>>)
  ELSE LET item == Head(siblings)
           rest == parseNavItem(Tail(siblings), parent)
       IN  IF ~item.hasChildren THEN rest
           ELSE LET info == extractNavInfos(item, parent)
                    sub  == IF info.ok THEN parseNavItem(item.kids, info.v) ELSE Throw
                IN  IF ~sub.ok \/ ~rest.ok THEN Throw
                    ELSE Ok(<<[label    |-> info.v.label,
                               href     |-> info.v.href,
                               parent   |-> info.v.parent,
                               items    |-> sub.v,
                               endPoint |-> Len(sub.v) = 0]>> \o rest.v)

\* setPositions: [items, endpoints]
RECURSIVE setPositions(_, _, _)
setPositions(items, level, endpoints) ==
  IF items = <<>> THEN [items |-> <<>>, endpoints |-> endpoints]
  ELSE LET item == Head(items)
           sub  == setPositions(item.items, level + 1, endpoints)
           here == IF item.endPoint
                     THEN [item |-> [label |-> item.label, href |-> item.href,
                                     parent |-> item.parent, items |-> item.items,
                                     endPoint |-> TRUE, level |-> level,
                                     position |-> endpoints + 1],
                           endpoints |-> endpoints + 1]
                     ELSE [item |-> [label |-> item.label, href |-> item.href,
                                     parent |-> item.parent, items |-> sub.items,
                                     endPoint |-> FALSE, level |-> level,
                                     position |-> Undefined],
                           endpoints |-> sub.endpoints]
           rest == setPositions(Tail(items), level, here.endpoints)
       IN  [items |-> <<here.item>> \o rest.items, endpoints |-> rest.endpoints]

\* tocDocument('navMap'), tocDocument('navMap > navPoint'),
\* tocDocument('nav[epub\\:type="toc"] > ol > li')
NavEntryPoints(tocDocument) ==
  IF tocDocument.kind \in {"ncx", "nav"} THEN tocDocument.roots ELSE <<>>

\* stands in for positioned where the top level is numbered 0
positionedFromZero(items) ==
  IF ~items.ok THEN Throw ELSE Ok(setPositions(items.v, 0, 0).items)
\* setPositions(items, 1, 0)
positioned(items) ==
  IF ~items.ok THEN Throw ELSE Ok(setPositions(items.v, 1, 0).items)

\* TocParser parse(tocDocument): calling what is not a document is a TypeError
parse(tocDocument) ==
  IF tocDocument.t # "dom" THEN Throw
  ELSE positioned(parseNavItem(NavEntryPoints(tocDocument), Null))

\* opf('item[media-type="application/x-dtbncx+xml"]'), opf('item[properties="nav"]')
TocElement(opf) ==
  IF opf.kind # "opf" THEN <<>>
  ELSE LET IsNcx(it) == it.mediaType = "application/x-dtbncx+xml"
           IsNav(it) == it.properties = "nav"
           ncx == SelectSeq(opf.manifest, IsNcx)
       IN  IF ncx = <<>> THEN SelectSeq(opf.manifest, IsNav) ELSE ncx

tocOrNull(items) == IF items.ok THEN Array(items.v) ELSE Null

\* parseToc(basePath, parseXml(tocFile)): the one-parameter parse is handed
\* basePath as its document
parseToc(basePath, tocDocument) == parse(Chars(basePath))

\* stands in for tocFetched where a failure gives an empty array
tocFetchedOrEmpty(tocFile, basePath) == Array(<<>>)
\* const tocFile = await getFile(...); parseToc(basePath, parseXml(tocFile))
tocFetched(tocFile, basePath) ==
  IF ~tocFile.ok \/ ~parseXml(tocFile.v).ok THEN Null
  ELSE tocOrNull(parseToc(basePath, parseXml(tocFile.v).v))

tocLocated(zip, c, tocElement) ==
  IF isEmpty(Array(tocElement)) THEN Null
  ELSE tocFetched(getFile(zip, c.basePath \o tocElement[1].href, STRING_FORMAT), c.basePath)

tocOf(zip, c) == IF ~c.ok THEN Null ELSE tocLocated(zip, c.v, TocElement(c.v.opf))

\* ZipEpub.getToc: every failure gives null
getToc(zip) == tocOf(zip, getOpfContent(zip))

-----------------------------------------------------------------------------
(* Counting (utils/index.js).  A content document is the sequence of its   *)
(* elements [tagName, text, id, attribsId, inBody, inSvg]: text is the     *)
(* length of the element's own text nodes, id the element object's id      *)
(* property, attribsId its id attribute.                                   *)
EMPTY_ELEMENTS_COUNT ==
  [characterCount |-> 0, imageCount |-> 0, videoCount |-> 0, totalCount |-> 0]

\* Object.assign(target, source)
ObjectAssign(target, source) == source @@ target

Count(s, Test(_)) == Len(SelectSeq(s, Test))

\* domContent('body *').toArray()
BodyElements(domContent) ==
  IF domContent.kind = "xhtml"
    THEN LET InBody(el) == el.inBody IN SelectSeq(domContent.nodes, InBody)
    ELSE <<>>
AllElements(domContent) ==
  IF domContent.kind = "xhtml" THEN domContent.nodes ELSE <<>>

getCharacterCount(elements) ==
  SumSeq([k \in 1..Len(elements) |-> elements[k].text])

getCharacterCountInDom(domContent) == getCharacterCount(BodyElements(domContent))

\* domContent('img, svg image').length
getImageCountInDom(domContent) ==
  LET IsImage(el) == el.tagName = "img" \/ (el.tagName = "image" /\ el.inSvg)
  IN  Count(AllElements(domContent), IsImage)

getImageCount(elements) ==
  LET IsImage(el) == el.tagName \in {"img", "image"} IN Count(elements, IsImage)

getVideoCount(elements) ==
  LET IsVideo(el) == el.tagName = "video" IN Count(elements, IsVideo)

getVideoCountInDom(domContent) == getVideoCount(AllElements(domContent))

\* stands in for TotalOf where the weights are left out
TotalUnweighted(characterCount, imageCount, videoCount) ==
  characterCount + imageCount + videoCount
TotalOf(characterCount, imageCount, videoCount) ==
  characterCount + 300 * imageCount + 300 * videoCount

estimateTotalCount(elementsCounts) ==
  ObjectAssign(elementsCounts,
               [totalCount |-> TotalOf(elementsCounts.characterCount,
                                       elementsCounts.imageCount,
                                       elementsCounts.videoCount)])

getSpineElementsCountInDom(domContent) ==
  estimateTotalCount([characterCount |-> getCharacterCountInDom(domContent),
                      imageCount     |-> getImageCountInDom(domContent),
                      videoCount     |-> getVideoCountInDom(domContent)])

getElementsCount(elements) ==
  estimateTotalCount([characterCount |-> getCharacterCount(elements),
                      imageCount     |-> getImageCount(elements),
                      videoCount     |-> getVideoCount(elements)])

-----------------------------------------------------------------------------
(* Numbers that are quotients: [n, d] in lowest terms, d > 0; 0/0 is NaN   *)
NaNQ == [n |-> 0, d |-> 0]
Quot(a, b) ==
  IF b = 0 THEN (IF a = 0 THEN NaNQ ELSE [n |-> 1, d |-> 0])
  ELSE LET g == Gcd(a, b) IN [n |-> a \div g, d |-> b \div g]
QAdd(x, y) ==
  IF x.d = 0 THEN x ELSE IF y.d = 0 THEN y
  ELSE Quot(x.n * y.d + y.n * x.d, x.d * y.d)
QInt(k) == [n |-> k, d |-> 1]
QSub(x, y) == QAdd(x, [n |-> 0 - y.n, d |-> y.d])
QTimes(k, x) == IF x.d = 0 THEN x ELSE Quot(k * x.n, x.d)
QNegative(x) == x.d # 0 /\ x.n < 0

-----------------------------------------------------------------------------
(* Table of contents items against the spine (utils/index.js) *)

\* href.split('#'): [1] when there is one, else null
getHashFromHref(href) ==
  LET hrefSplit == split(href, "#")
  IN  IF Len(hrefSplit) > 1 THEN Chars(hrefSplit[2]) ELSE Null

\* items || []: a table of contents is null or Array(items)
OrEmpty(tocItems) == IF tocItems.t = "array" THEN tocItems.a ELSE <<>>

RECURSIVE findTocItemsInSpine(_, _)
findTocItemsInSpine(list, href) ==
  LET Matches(item) == indexOfIsZero(item.href, href)
      RECURSIVE below(_)
      below(k) == IF k > Len(list) THEN <<>>
                  ELSE findTocItemsInSpine(list[k].items, href) \o below(k + 1)
  IN  SelectSeq(list, Matches) \o below(1)

\* `epubcfi(${baseCfi}!/4)`, or the EpubCFI of the element the hash names
computeCfi(baseCfi, spineContent, hash) ==
  LET Named(el) == el.attribsId = hash
      hashElement == IF hash = Null \/ hash.c = <<>> THEN <<>>
                     ELSE SelectSeq(AllElements(spineContent), Named)
  IN  IF Len(hashElement) > 0
        THEN <<"epubcfi(">> \o baseCfi \o <<"!", "/4", "[">> \o hash.c \o <<"]", ")">>
        ELSE <<"epubcfi(">> \o baseCfi \o <<"!", "/4", ")">>

\* the body of the map callback of enrichTocItems, on one matching item; the
\* position of an item whose element is found is set by a promise nobody
\* awaits: until it settles the item carries the pending quotient
enrichTocItem(item, spine, spineDomContent) ==
  LET spineElements == BodyElements(spineDomContent)
      hash == getHashFromHref(item.href)
      found == {k \in 1..Len(spineElements) : spineElements[k].id = hash}
      withCfi == ObjectAssign(item, [cfi |-> computeCfi(spine.cfi, spineDomContent, hash)])
  IN  IF found = {} THEN ObjectAssign(withCfi, [positionInSpine |-> QInt(0)])
      ELSE LET itemElementId == CHOOSE k \in found : \A h \in found : k <= h
               elementsCount == getElementsCount(SubSeq(spineElements, 1, itemElementId - 1))
           IN  ObjectAssign(withCfi,
                 [pendingPosition |-> Quot(elementsCount.totalCount, spine.totalCount)])

\* the items are changed in place wherever they sit in the tree
RECURSIVE enrichTocItems(_, _, _)
enrichTocItems(items, spine, spineDomContent) ==
       [k \in 1..Len(items) |->
          LET item == IF indexOfIsZero(items[k].href, spine.href)
                        THEN enrichTocItem(items[k], spine, spineDomContent)
                        ELSE items[k]
          IN  [item EXCEPT !.items = enrichTocItems(@, spine, spineDomContent)]]

\* item.positionInSpine; undefined in arithmetic is NaN
PositionInSpine(item) ==
  IF "positionInSpine" \in DOMAIN item THEN item.positionInSpine ELSE NaNQ

inSameSpine(item1, item2) == split(item1.href, "#")[1] = split(item2.href, "#")[1]

\* the items are changed in place: the changed items are returned
RECURSIVE computeTocItemsSizes(_, _, _)
computeTocItemsSizes(items, basePosition, baseSize) ==
  [i \in 1..Len(items) |->
     LET item == items[i]
         computed == IF i + 1 <= Len(items)
                       THEN IF inSameSpine(item, items[i + 1])
                              THEN QSub(PositionInSpine(items[i + 1]), PositionInSpine(item))
                              ELSE baseSize
                       ELSE QSub(QAdd(baseSize, basePosition), PositionInSpine(item))
         sizeInSpine == IF QNegative(computed) THEN QInt(0) ELSE computed
     IN  ObjectAssign([item EXCEPT !.items =
                         computeTocItemsSizes(@, PositionInSpine(item), sizeInSpine)],
                      [percentageOfSpine |-> QTimes(100, sizeInSpine)])]

\* stands in for paginate where an item without TOC node is always labelled
\* by its file name
RECURSIVE paginateByFileName(_, _, _, _)
paginateByFileName(tocItems, spines, totalCount, acc) ==
  IF acc.spineIndex >= Len(spines) THEN acc
  ELSE LET spine == spines[acc.spineIndex + 1]
           items == findTocItemsInSpine(OrEmpty(tocItems), spine.href)
           element == [items |-> items,
                       label |-> IF items = <<>> THEN split(spine.href, ".")[1]
                                 ELSE items[1].label,
                       percentageOfBook |-> Quot(100 * spine.totalCount, totalCount),
                       positionInBook |-> acc.combinedSize]
       IN  paginateByFileName(tocItems, spines, totalCount,
                    [elements     |-> Append(acc.elements, element),
                     spineIndex   |-> acc.spineIndex + 1,
                     combinedSize |-> QAdd(acc.combinedSize, element.percentageOfBook),
                     maxLevel     |-> acc.maxLevel])

RECURSIVE paginate(_, _, _, _)
paginate(tocItems, spines, totalCount, acc) ==
  IF acc.spineIndex >= Len(spines) THEN acc
  ELSE LET spine == spines[acc.spineIndex + 1]
           items == findTocItemsInSpine(OrEmpty(tocItems), spine.href)
           levels == {items[k].level : k \in 1..Len(items)} \cup {acc.maxLevel}
           label == IF isEmpty(Array(items))
                      THEN IF isEmpty(Array(acc.elements))
                             THEN split(spine.href, ".")[1]
                             ELSE acc.elements[acc.spineIndex].label
                      ELSE items[1].label
           element == [items |-> items,
                       label |-> label,
                       percentageOfBook |-> Quot(100 * spine.totalCount, totalCount),
                       positionInBook |-> acc.combinedSize]
       IN  paginate(tocItems, spines, totalCount,
                    [elements     |-> Append(acc.elements, element),
                     spineIndex   |-> acc.spineIndex + 1,
                     combinedSize |-> QAdd(acc.combinedSize, element.percentageOfBook),
                     maxLevel     |-> CHOOSE m \in levels : \A l \in levels : l <= m])

\* stands in for SpinesTotal where each item counts once more
SpinesTotalOff(spines) == SumSeq([k \in 1..Len(spines) |-> spines[k].totalCount + 1])
\* spines.reduce((total, spine) => total + spine.totalCount, 0)
SpinesTotal(spines) == SumSeq([k \in 1..Len(spines) |-> spines[k].totalCount])

paginated(totalCount, out) ==
  [totalCount |-> totalCount, maxLevel |-> out.maxLevel, elements |-> out.elements]

generatePagination(tocItems, spines) ==
  paginated(SpinesTotal(spines),
            paginate(tocItems, spines, SpinesTotal(spines),
                     [elements |-> <<>>, spineIndex |-> 0,
                      combinedSize |-> QInt(0), maxLevel |-> 1]))

-----------------------------------------------------------------------------
(* Reading one content document (zipTools.js getFileContent) *)

\* the text a run of bytes decodes to; Documents is the table of the texts
\* whose bytes the scenario knows
Utf8Bom == <<239, 187, 191>>
binaryToText(b, Documents) ==
  LET known == {d \in Documents : d.bytes = b}
  IN  IF known = {} THEN Garbage ELSE (CHOOSE d \in known : TRUE).text

\* BOM removal, then forge.util.decodeUtf8
convertUtf16Data(data, Documents) ==
  LET b == IF indexOfIsZero(data.b, Utf8Bom) THEN Drop(data.b, Len(Utf8Bom)) ELSE data.b
  IN  binaryToText(b, Documents)

\* /html/.test(path)
HasHtml(path) == \E k \in 1..Len(path) : path[k] \in {"html", "xhtml"}

\* import {PROTECTION_METHODS} from '../Lcp': Lcp.js exports only its default,
\* so the binding is undefined and reading a member of it is a TypeError
PROTECTION_METHODS == Undefined

\* after Lcp.decipherTextFile: convertUtf16Data when the path says html
deciphered(d, path, Documents) ==
  IF ~d.ok THEN [v |-> EmptyText, list |-> d.list]
  ELSE IF HasHtml(path) THEN [v |-> convertUtf16Data(d.v, Documents), list |-> d.list]
  ELSE [v |-> binaryToText(d.v.b, Documents), list |-> d.list]

fileFetched(fileContent, list, path, protection, license, key, Documents) ==
  IF ~fileContent.ok THEN [v |-> EmptyText, list |-> list]
  ELSE IF isEmpty(protection) THEN [v |-> fileContent.v, list |-> list]
  ELSE IF PROTECTION_METHODS = Undefined THEN [v |-> EmptyText, list |-> list]
  ELSE IF protection.type = PROTECTION_METHODS.LCP
    THEN deciphered(decipherTextFile(list, fileContent.v, protection, license, key),
                    path, Documents)
  ELSE [v |-> fileContent.v, list |-> list]

\* [v, list]: the content ('' on any failure) and the Lcp context cache
getFileContent(list, zip, path, protection, license, key, Documents) ==
  fileFetched(getFile(zip, path,
                      IF isEmpty(protection) THEN STRING_FORMAT ELSE ARRAYBUFFER_FORMAT),
              list, path, protection, license, key, Documents)

-----------------------------------------------------------------------------
(* The Lcp scenario: a license issued for one user key, a list of candidate *)
(* keys, and one protected resource.                                        *)
PatternBytes(n, a) == [i \in 1..n |-> (a * i + 100 * a) % 256]

UserKeyA   == PatternBytes(32, 1)      \* the key the license was issued for
UserKeyB   == PatternBytes(32, 2)      \* another user's key
ContentKey == PatternBytes(32, 5)
LicenseId  == <<108, 99, 112, 45, 49>>
IvOf(a)    == PatternBytes(IV_BYTES_SIZE, a)

LicenseFor(userKey) ==
  [t |-> "license", id |-> LicenseId,
   key_check       |-> encode64(Encrypt(userKey, IvOf(7), LicenseId)),
   encrypted_value |-> encode64(Encrypt(userKey, IvOf(9), ContentKey))]
License == LicenseFor(UserKeyA)
\* a parsed license file without the encryption block
MalformedLicense == [t |-> "object"]

KeyLower == Hex(bytesToHex(UserKeyA, FALSE))
KeyUpper == Hex(bytesToHex(UserKeyA, TRUE))
KeyOther == Hex(bytesToHex(UserKeyB, FALSE))
KeyShort == Hex(<<10, 11>>)            \* not an AES key size: forge throws
Candidates == {KeyLower, KeyUpper, KeyOther, KeyShort}

RECURSIVE SeqsUpTo(_, _)
SeqsUpTo(S, n) ==
  IF n = 0 THEN {<<>>}
  ELSE LET shorter == SeqsUpTo(S, n - 1)
       IN  shorter \cup {Append(q, x) : q \in {r \in shorter : Len(r) = n - 1}, x \in S}

KeyLists == {Null} \cup {Array(a) : a \in SeqsUpTo(Candidates, MaxKeys)}

Protection(method) ==
  [t |-> "protection", compressionMethod |-> method,
   algorithm |-> "http://www.w3.org/2001/04/xmlenc#aes256-cbc",
   originalLength |-> 0,
   type |-> Str("http://readium.org/2014/01/lcp#EncryptedContentKey")]

PlainOf(n) == [i \in 1..n |-> (37 * i + 3) % 256]

\* what the LCP producer stores for a resource: IV || AES-CBC(contentKey, ...)
Protect(plain, method, iv) ==
  Encrypt(ContentKey, iv, IF method = ZIP_COMPRESSION_METHOD THEN Deflate(plain) ELSE plain)

\* every candidate list with a short resource, every resource length with
\* the one-key lists
LcpInputs ==
  {in \in [license : {Null, License}, keys : KeyLists, len : 0..MaxPlain,
           method : {0, ZIP_COMPRESSION_METHOD}, fetchMode : {"text", "arraybuffer"}] :
     \/ in.len \in {0, 5}
     \/ in.keys \in {Array(<<KeyLower>>), Array(<<KeyOther>>)}}

LcpIdle == lcpIn = Null /\ lcpOut = Null

LcpInit ==
  /\ lcpIn \in LcpInputs
  /\ lcpOut = [pc |-> "start", userKey |-> Undefined, result |-> Throw]

\* await Lcp.getValidUserKey(license, keys)
LcpGetValidUserKey ==
  /\ lcpOut.pc = "start"
  /\ lcpOut' = [pc |-> "keyed", result |-> Throw,
                userKey |-> getValidUserKey(lcpIn.license, lcpIn.keys).v]
  /\ UNCHANGED <<lcpIn, contextList>>

\* await Lcp.decipherFile(fetchMode, data, protection, license, userKey)
LcpDecipherFile ==
  /\ lcpOut.pc = "keyed"
  /\ \E r \in {decipherFile(contextList, Str(lcpIn.fetchMode),
                            Bytes(Protect(PlainOf(lcpIn.len), lcpIn.method, IvOf(3))),
                            Protection(lcpIn.method), lcpIn.license, lcpOut.userKey)} :
       /\ lcpOut' = [lcpOut EXCEPT !.pc = "done", !.result = [ok |-> r.ok, v |-> r.v]]
       /\ contextList' = r.list
  /\ UNCHANGED lcpIn

AnIdle ==
  /\ pkg = Null /\ locals = Null /\ pc = "idle" /\ validSpineItems = <<>> /\ toc = Null
  /\ task = <<>> /\ content = <<>>
  /\ slots = <<>> /\ completion = <<>> /\ outcome = Null

DecIdle ==
  arc = Null /\ dpc = "idle" /\ dlocals = Null /\ epubFiles = <<>> /\ newZip = <<>>

ObjIdle == zipEpub = Null /\ calls = <<>>

TocIdle == tocInput = Null /\ tocResult = Null

CtxIdle == inflight = <<>> /\ derivations = <<>>

UtilIdle == utilCall = Null /\ utilResult = Null

WebIdle == webEpub = Null /\ webCalls = <<>>

InitLcp == LcpInit /\ contextList = <<>> /\ AnIdle /\ DecIdle /\ ObjIdle /\ TocIdle /\ CtxIdle /\ UtilIdle /\ WebIdle

NextLcp ==
  \/ LcpGetValidUserKey /\ UNCHANGED <<anVars, decVars, objVars, tocVars, ctxVars, utilVars, webVars>>
  \/ LcpDecipherFile /\ UNCHANGED <<anVars, decVars, objVars, tocVars, ctxVars, utilVars, webVars>>

SpecLcp == InitLcp /\ [][NextLcp]_vars

-----------------------------------------------------------------------------
(* Claims on the Lcp scenario *)
MaxOf(S) == CHOOSE x \in S : \A y \in S : y <= x

\* decrypting the license's key_check with the candidate gives the license id
\* (stated with the one-pass reference decryption)
KeyOpens(license, key) ==
  LET k   == hexToBytes(key.h)
      raw == RefDecrypt(k, decode64(license.key_check))
  IN  /\ Len(k) \in AesKeySizes
      /\ raw # <<>>
      /\ raw[Len(raw)] <= Len(raw)
      /\ Take(raw, Len(raw) - raw[Len(raw)]) = license.id

C8_RoundTrip ==
  lcpOut # Null /\ lcpOut.pc = "done" /\ lcpOut.userKey # Undefined =>
    /\ lcpOut.result.ok
    /\ lcpOut.result.v.b = PlainOf(lcpIn.len)

\* a plaintext of exactly two chunks (three chunks of ciphertext) came back
C8_Witness ==
  /\ lcpOut # Null /\ lcpOut.pc = "done" /\ lcpOut.userKey # Undefined
  /\ lcpIn.method = 0
  /\ lcpIn.len = 2 * CBC_CHUNK_SIZE
  /\ lcpOut.result.ok /\ lcpOut.result.v.b = PlainOf(lcpIn.len)

-----------------------------------------------------------------------------
(* The analysis scenario: a publication described by which of its entries  *)
(* are there and in what state, and the archive built from the description *)
Ids == 1..NumIds
IdOf(i)   == "item" \o ToString(i)
HrefOf(i) == <<"ch" \o ToString(i), ".", "xhtml">>
OpfDir    == <<"OEBPS", "/">>
OpfPath   == OpfDir \o <<"content", ".", "opf">>
NavHref   == <<"nav", ".", "xhtml">>

El(tagName, text, inSvg) ==
  [tagName |-> tagName, text |-> text, id |-> Undefined, attribsId |-> Undefined,
   inBody |-> TRUE, inSvg |-> inSvg, src |-> Undefined, href |-> Undefined]

Img(src)        == [El("img", 0, FALSE) EXCEPT !.src = Chars(src)]
SvgImage(href)  == [El("image", 0, TRUE) EXCEPT !.href = Chars(href)]

\* the elements of content document i
DocNodes(i) ==
  CASE i = 1 -> <<El("p", 5, FALSE), Img(<<"images", "/", "c1", ".", "jpg">>)>>
    [] i = 2 -> <<El("p", 7, FALSE), El("svg", 0, FALSE), SvgImage(<<"c2", ".", "jpg">>),
                  El("video", 0, FALSE), El("image", 0, FALSE)>>
    [] OTHER -> <<El("p", i, FALSE)>>

DocText(i)   == [t |-> "text", kind |-> "xhtml", nodes |-> DocNodes(i)]
\* cut short in the middle: the parser keeps the elements it has seen
Truncated(i) == [t |-> "text", kind |-> "xhtml", nodes |-> Front(DocNodes(i))]
DocBytes(i)  == PlainOf(10 + i)
Documents    == {[text |-> DocText(i), bytes |-> DocBytes(i)] : i \in Ids}

NoFault == [id |-> 0, state |-> "ok"]
DocState(p, i) == IF p.fault.id = i THEN p.fault.state ELSE "ok"
\* the documents encryption.xml lists, when it is there and well-formed
ProtectedIds(p) == IF p.encryption = "ok" THEN {1} ELSE {}

ContainerXml(rootfiles) == [t |-> "text", kind |-> "container", rootfiles |-> rootfiles]

\* what the package document says of the cover: a meta named cover (whose
\* content names a manifest item, or names none), a manifest item with
\* properties="cover-image", a guide reference to content document guide
NoCover == [meta |-> "none", manifest |-> FALSE, guide |-> 0]
CoverHref == <<"images", "/", "cover", ".", "jpg">>
FrontHref == <<"images", "/", "front", ".", "jpg">>
CoverItems(cover) ==
  (IF cover.meta = "item"
     THEN <<[id |-> "cover-img", href |-> CoverHref, properties |-> "",
             mediaType |-> "image/jpeg"]>> ELSE <<>>)
  \o (IF cover.manifest
        THEN <<[id |-> "front", href |-> FrontHref, properties |-> "cover-image",
                mediaType |-> "image/jpeg"]>> ELSE <<>>)

OpfXml(p) ==
  [t |-> "text", kind |-> "opf", uniqueIdentifier |-> "uid",
   spine    |-> [k \in 1..Len(p.itemrefs) |->
                   [idref |-> IdOf(p.itemrefs[k]), properties |-> ""]],
   manifest |-> [k \in 1..NumIds + 1 |->
                   IF k > NumIds
                     THEN [id |-> "nav", href |-> NavHref, properties |-> "nav",
                           mediaType |-> "application/xhtml+xml"]
                     ELSE [id |-> IF k \in p.dangling THEN "unused" ELSE IdOf(k),
                           href |-> HrefOf(k), properties |-> "",
                           mediaType |-> "application/xhtml+xml"]]
                \o CoverItems(p.cover),
   guide    |-> IF p.cover.guide = 0 THEN <<>>
                ELSE <<[type |-> "cover", href |-> HrefOf(p.cover.guide)]>>,
   metadata |-> [k \in 1..Len(p.identifiers) |->
                   [tagName |-> "dc:identifier", id |-> p.identifiers[k].id,
                    text |-> p.identifiers[k].text,
                    property |-> "", name |-> "", content |-> ""]]
                \o <<[tagName |-> "meta", id |-> "", text |-> p.layout,
                   property |-> "rendition:layout", name |-> "", content |-> ""]>>
                \o (IF p.cover.meta = "none" THEN <<>>
                    ELSE <<[tagName |-> "meta", id |-> "", text |-> "", property |-> "",
                            name |-> "cover", content |-> "cover-img"]>>)]

NavXml ==
  [t |-> "text", kind |-> "nav",
   roots |-> <<[hasChildren |-> TRUE, label |-> <<"One">>, href |-> Chars(HrefOf(1)),
                kids |-> <<>>, nested |-> <<>>]>>]

EncryptionXml ==
  [t |-> "text", kind |-> "encryption",
   entries |-> <<[uri |-> OpfDir \o HrefOf(1),
                  algorithm |-> Str("http://www.w3.org/2001/04/xmlenc#aes256-cbc"),
                  compression |-> TRUE, method |-> ZIP_COMPRESSION_METHOD,
                  originalLength |-> Len(DocBytes(1)),
                  retrievalMethod |-> TRUE,
                  retrievalType |-> Str("http://readium.org/2014/01/lcp#EncryptedContentKey"),
                  resource |-> FALSE, resourceXmlns |-> Undefined]>>]

LicenseJson(value) == [t |-> "text", kind |-> "json", value |-> value]

Entry(state, data) ==
  [readable |-> state # "unreadable", dir |-> FALSE,
   data |-> IF state = "garbage" THEN Garbage ELSE data]

\* the entries of the archive, as <<name, entry>>
EntriesOf(p) ==
  {<<ContainerPath,
     Entry(p.container, ContainerXml(IF p.container = "norootfile" THEN <<>>
                                     ELSE <<OpfPath>>))>>}
  \cup {<<OpfPath, Entry(p.opf, OpfXml(p))>>}
  \cup {<<EncryptionPath, Entry(p.encryption, EncryptionXml)>>}
  \cup {<<LicensePath,
          Entry(p.licenseFile, LicenseJson(IF p.licenseFile = "malformed"
                                           THEN MalformedLicense ELSE License))>>}
  \cup {<<OpfDir \o NavHref, Entry(p.nav, NavXml)>>}
  \cup {<<OpfDir \o HrefOf(i),
          Entry(DocState(p, i),
                IF i \in ProtectedIds(p)
                  THEN Bytes(Protect(DocBytes(i), ZIP_COMPRESSION_METHOD, IvOf(3)))
                ELSE IF DocState(p, i) = "truncated" THEN Truncated(i)
                ELSE DocText(i))>> : i \in Ids}

StateOf(p, name) ==
  IF name = ContainerPath THEN p.container
  ELSE IF name = OpfPath THEN p.opf
  ELSE IF name = EncryptionPath THEN p.encryption
  ELSE IF name = LicensePath THEN p.licenseFile
  ELSE IF name = OpfDir \o NavHref THEN p.nav
  ELSE DocState(p, CHOOSE i \in Ids : name = OpfDir \o HrefOf(i))

Present(p) == {e \in EntriesOf(p) : StateOf(p, e[1]) \notin {"missing", "ctor"}}
FilesOf(entries) == [name \in {e[1] : e \in entries} |-> (CHOOSE e \in entries : e[1] = name)[2]]
ZipOf(p) == FilesOf(Present(p))

\* the itemref lists: up to MaxSpine different documents, in any order
InjSeqs == {q \in SeqsUpTo(Ids, MaxSpine) : \A j, k \in 1..Len(q) : j # k => q[j] # q[k]}

Base ==
  [itemrefs |-> <<1, 2>>, dangling |-> {}, container |-> "ok", opf |-> "ok",
   layout |-> "reflowable", fault |-> NoFault, encryption |-> "missing",
   licenseFile |-> "missing", keys |-> Null, nav |-> "missing",
   identifiers |-> <<[id |-> "uid", text |-> "urn:isbn:1"]>>, cover |-> NoCover]

\* every spine order, with and without an itemref that names no manifest
\* item, with and without a document that is missing or cut short
OrderInputs ==
  {[Base EXCEPT !.itemrefs = q, !.dangling = d, !.fault = f] :
     q \in InjSeqs, d \in {{}, {2}},
     f \in {NoFault, [id |-> 2, state |-> "missing"], [id |-> 2, state |-> "truncated"]}}

\* every combination of entry states, on the two-document spine
EntryInputs ==
  {[Base EXCEPT !.container = c, !.opf = o, !.layout = l, !.fault = f,
                !.encryption = e, !.licenseFile = lf, !.keys = ks, !.nav = n] :
     c \in {"ok", "missing", "unreadable", "garbage", "norootfile"},
     o \in {"ok", "missing", "unreadable", "garbage"},
     l \in {"reflowable", "pre-paginated"},
     f \in {NoFault} \cup {[id |-> 1, state |-> st] : st \in {"missing", "unreadable", "garbage"}},
     e \in {"ok", "missing", "garbage"},
     lf \in {"ok", "missing", "malformed", "garbage", "ctor"},
     ks \in {Null, Array(<<KeyLower, KeyOther>>)},
     n \in {"ok", "missing", "unreadable", "garbage"}}

Packages == OrderInputs \cup EntryInputs

AnInit ==
  /\ \E p \in Packages :
       pkg = [zip |-> ZipOf(p), keys |-> p.keys, desc |-> p,
              license |-> IF p.licenseFile = "ctor" THEN License ELSE Null]
  /\ locals = Null /\ pc = "start" /\ validSpineItems = <<>> /\ toc = Null
  /\ task = <<>> /\ content = <<>> /\ slots = <<>> /\ completion = <<>>
  /\ outcome = Null

-----------------------------------------------------------------------------
(* ZipEpub.analyze *)

\* opf('spine > itemref').each(...): itemrefs without a manifest item are
\* skipped (spread "" is no spread property)
RECURSIVE spineEach(_, _, _)
spineEach(itemrefs, basePath, opf) ==
  IF itemrefs = <<>> THEN <<>>
  ELSE LET spineItem == Head(itemrefs)
           item == ManifestItems(opf, spineItem.idref)
           rest == spineEach(Tail(itemrefs), basePath, opf)
       IN  IF isEmpty(Array(item)) THEN rest
           ELSE <<[idref  |-> spineItem.idref,
                   href   |-> item[1].href,
                   path   |-> makeAbsolutePath(basePath \o item[1].href),
                   spread |-> spineItem.properties]>> \o rest

\* stands in for cfiOf where the steps are counted from 1
cfiFromOne(index) == <<"/", "6", "/", ToString(2 + (index + 1) * 2)>>
\* `/6/${2 + index * 2}`
cfiOf(index) == <<"/", "6", "/", ToString(2 + index * 2)>>

\* validSpineItems.forEach((item, index) => ...)
withCfiAndProtection(items, protectedFiles) ==
  [k \in 1..Len(items) |->
     ObjectAssign(items[k], [cfi |-> cfiOf(k - 1),
                             protection |-> Lookup(protectedFiles, items[k].path)])]

\* stands in for allSlot where values are kept in order of arrival
allSlotArrival(result, i) ==
  CHOOSE k \in 1..Len(result) : result[k] = 0 /\ \A h \in 1..(k - 1) : result[h] # 0
\* rsvp all(): the value of the i-th promise goes to the i-th place
allSlot(result, i) == i

Reject ==
  /\ pc' = "done" /\ outcome' = [status |-> "rejected"]
  /\ UNCHANGED <<pkg, locals, validSpineItems, toc, task, content, slots,
                 completion, contextList>>

\* the item analyses start (none for a fixed layout: the items are returned
\* as they are)
StartItems(items, tocItems, license, userKey, fixed) ==
  /\ validSpineItems' = items
  /\ toc' = tocItems
  /\ locals' = [license |-> license, userKey |-> userKey]
  /\ task' = [k \in 1..Len(items) |-> IF fixed THEN "none" ELSE "fetch"]
  /\ content' = [k \in 1..Len(items) |-> Null]
  /\ slots' = [k \in 1..Len(items) |-> IF fixed THEN k ELSE 0]
  /\ pc' = IF fixed THEN "spine" ELSE "analyzing"
  /\ UNCHANGED <<pkg, completion, outcome, contextList>>

\* Epub.analyze calls spine(): ZipEpub.getSpine up to the call of all()
GetSpine ==
  /\ pc = "start"
  /\ \E license \in {getLicense(pkg.license, pkg.zip)},
        tocItems \in {getToc(pkg.zip)},
        c \in {getOpfContent(pkg.zip)} :
       IF ~c.ok THEN Reject
       ELSE \E items \in {withCfiAndProtection(
                            spineEach(SpineItemrefs(c.v.opf), c.v.basePath, c.v.opf),
                            getProtectedFiles(pkg.zip))},
               metadata \in {getMetadata(pkg.zip)} :
              IF ~metadata.ok THEN Reject
              ELSE IF isEpubFixedLayout(metadata.v)
                THEN StartItems(items, tocItems, license, Undefined, TRUE)
              ELSE \E userKey \in {getValidUserKey(license, pkg.keys)} :
                     IF ~userKey.ok THEN Reject
                     ELSE StartItems(items, tocItems, license, userKey.v, FALSE)

\* the promise of item i settles with the spine item object
Settle(i) ==
  /\ slots' = [slots EXCEPT ![allSlot(slots, i)] = i]
  /\ completion' = Append(completion, i)
  /\ task' = [task EXCEPT ![i] = "done"]

\* analyzeSpineItem: getFileContent(zip, spine.path, spine.protection, ...)
FetchItem(i) ==
  /\ pc = "analyzing" /\ task[i] = "fetch"
  /\ \E r \in {getFileContent(contextList, pkg.zip, validSpineItems[i].path,
                              validSpineItems[i].protection,
                              locals.license, locals.userKey, Documents)} :
       /\ content' = [content EXCEPT ![i] = r.v]
       /\ contextList' = r.list
  /\ task' = [task EXCEPT ![i] = "count"]
  /\ UNCHANGED <<pkg, locals, pc, validSpineItems, toc, slots, completion, outcome>>

\* .then(parseXml).then(domContent => getSpineElementsCountInDom(domContent)
\*   .then(elementsCount => Object.assign(spine, elementsCount)) ...;
\* .catch(... Object.assign(spine, EMPTY_ELEMENTS_COUNT))
CountItem(i) ==
  /\ pc = "analyzing" /\ task[i] = "count"
  /\ LET domContent == parseXml(content[i])
     IN  IF ~domContent.ok
           THEN /\ validSpineItems' =
                     [validSpineItems EXCEPT ![i] = ObjectAssign(@, EMPTY_ELEMENTS_COUNT)]
                /\ Settle(i)
                /\ UNCHANGED content
           ELSE /\ validSpineItems' =
                     [validSpineItems EXCEPT
                        ![i] = ObjectAssign(@, getSpineElementsCountInDom(domContent.v))]
                /\ content' = [content EXCEPT ![i] = domContent.v]
                /\ task' = [task EXCEPT ![i] = "enrich"]
                /\ UNCHANGED <<slots, completion>>
  /\ UNCHANGED <<pkg, locals, pc, toc, outcome, contextList>>

\* .then(spine => enrichTocItems(toc, spine, domContent))
EnrichItem(i) ==
  /\ pc = "analyzing" /\ task[i] = "enrich"
  /\ toc' = IF toc.t = "array"
              THEN Array(enrichTocItems(toc.a, validSpineItems[i], content[i]))
              ELSE toc
  /\ Settle(i)
  /\ UNCHANGED <<pkg, locals, pc, validSpineItems, content, outcome, contextList>>

\* all() resolves once every promise has (at once for an empty array)
AllSettled ==
  /\ pc = "analyzing"
  /\ \A i \in 1..Len(task) : task[i] = "done"
  /\ pc' = "spine"
  /\ UNCHANGED <<pkg, locals, validSpineItems, toc, task, content, slots,
                 completion, outcome, contextList>>

\* await computeTocItemsSizes(data.toc)
sizedToc(tocItems) ==
  IF isEmpty(tocItems) THEN tocItems
  ELSE Array(computeTocItemsSizes(tocItems.a, QInt(0), QInt(1)))

\* data.pagination, for a publication that is not fixed layout
withPagination(data) ==
  IF isEpubFixedLayout(data.metadata) THEN data
  ELSE ObjectAssign(data, [pagination |-> generatePagination(data.toc, data.spine)])

\* Epub.analyze after spine(), then the rest of ZipEpub.analyze
Assemble ==
  /\ pc = "spine"
  /\ \E metadata \in {getMetadata(pkg.zip)} :
       IF ~metadata.ok THEN Reject
       ELSE /\ outcome' =
                 [status |-> "resolved",
                  data |-> withPagination(
                             [license  |-> getLicense(pkg.license, pkg.zip),
                              metadata |-> metadata.v,
                              spine    |-> [k \in 1..Len(slots) |-> validSpineItems[slots[k]]],
                              toc      |-> sizedToc(getToc(pkg.zip))])]
            /\ pc' = "done"
            /\ UNCHANGED <<pkg, locals, validSpineItems, toc, task, content, slots,
                           completion, contextList>>

InitAnalyze == AnInit /\ contextList = <<>> /\ LcpIdle /\ DecIdle /\ ObjIdle /\ TocIdle /\ CtxIdle /\ UtilIdle /\ WebIdle

NextAnalyze ==
  \/ GetSpine /\ UNCHANGED <<lcpVars, decVars, objVars, tocVars, ctxVars, utilVars, webVars>>
  \/ \E i \in 1..Len(task) : FetchItem(i) /\ UNCHANGED <<lcpVars, decVars, objVars, tocVars, ctxVars, utilVars, webVars>>
  \/ \E i \in 1..Len(task) : CountItem(i) /\ UNCHANGED <<lcpVars, decVars, objVars, tocVars, ctxVars, utilVars, webVars>>
  \/ \E i \in 1..Len(task) : EnrichItem(i) /\ UNCHANGED <<lcpVars, decVars, objVars, tocVars, ctxVars, utilVars, webVars>>
  \/ AllSettled /\ UNCHANGED <<lcpVars, decVars, objVars, tocVars, ctxVars, utilVars, webVars>>
  \/ Assemble /\ UNCHANGED <<lcpVars, decVars, objVars, tocVars, ctxVars, utilVars, webVars>>

SpecAnalyze == InitAnalyze /\ [][NextAnalyze]_vars

-----------------------------------------------------------------------------
(* Claims on the analysis *)
Resolved == pc = "done" /\ outcome.status = "resolved"
Rejected == pc = "done" /\ outcome.status = "rejected"

\* the itemrefs the package document declares (none when it is not markup),
\* and those of them that name a manifest item
Declared(p) == IF p.opf = "ok" THEN p.itemrefs ELSE <<>>
Resolvable(p) == LET Named(i) == i \notin p.dangling IN SelectSeq(Declared(p), Named)
ValidPackage(p) == p.opf = "ok" /\ Resolvable(p) = p.itemrefs
IsFixed(p) == p.layout = "pre-paginated"

\* C1: for a valid package the returned spine has one item per itemref and
\* spine[i].idref is the idref of the i-th itemref, in whatever order the item
\* analyses completed (for any package: of the i-th itemref that names a
\* manifest item)
C1_SpineOrder ==
  Resolved =>
    LET p == pkg.desc
        out == outcome.data.spine
    IN  /\ Len(out) = Len(Resolvable(p))
        /\ \A i \in 1..Len(out) : out[i].idref = IdOf(Resolvable(p)[i])
        /\ ValidPackage(p) =>
             /\ Len(out) = Len(p.itemrefs)
             /\ \A i \in 1..Len(out) : out[i].idref = IdOf(p.itemrefs[i])

\* a valid three-item package whose analyses completed last item first
C1_Witness ==
  /\ Resolved /\ ValidPackage(pkg.desc)
  /\ Len(pkg.desc.itemrefs) = 3
  /\ completion = <<3, 2, 1>>
  /\ \A i \in 1..3 : outcome.data.spine[i].idref = IdOf(pkg.desc.itemrefs[i])

\* the document of manifest item i cannot be fetched or decrypted
Failing(p, i) == DocState(p, i) \in {"missing", "unreadable"} \/ i \in ProtectedIds(p)

\* what a document that can be read contains: characters, images, videos
Contents(p, i) ==
  IF DocState(p, i) = "garbage" THEN <<0, 0, 0>>
  ELSE IF DocState(p, i) = "truncated"
    THEN (CASE i = 1 -> <<5, 0, 0>> [] i = 2 -> <<7, 1, 1>> [] OTHER -> <<0, 0, 0>>)
  ELSE (CASE i = 1 -> <<5, 1, 0>> [] i = 2 -> <<7, 1, 1>> [] OTHER -> <<i, 0, 0>>)

DocIdOf(item) == CHOOSE i \in Ids : item.href = HrefOf(i)

ContainerBad(p) == p.container \in {"missing", "unreadable", "garbage", "norootfile"}
PackageDocBad(p) == p.opf \in {"missing", "unreadable", "garbage"}

\* C3: analyze() rejects only when container.xml or the package document is
\* missing or unparseable; with any other combination of absent or damaged
\* entries it resolves
C3_RejectsOnlyIfFatal ==
  Rejected => ContainerBad(pkg.desc) \/ PackageDocBad(pkg.desc)

\* C4: every spine item of a reflowable publication has
\* totalCount = characterCount + 300 * imageCount + 300 * videoCount, counted
\* or fallen back to zero
C4_TotalCount ==
  Resolved /\ "pagination" \in DOMAIN outcome.data =>
    \A k \in 1..Len(outcome.data.spine) :
      LET it == outcome.data.spine[k]
      IN  it.totalCount = it.characterCount + 300 * it.imageCount + 300 * it.videoCount

\* an item with text, an image and a video next to an item that fell back
C4_Witness ==
  /\ Resolved /\ "pagination" \in DOMAIN outcome.data
  /\ \E j, k \in 1..Len(outcome.data.spine) :
       /\ outcome.data.spine[j].characterCount > 0
       /\ outcome.data.spine[j].imageCount > 0
       /\ outcome.data.spine[j].videoCount > 0
       /\ outcome.data.spine[j].totalCount = 607
       /\ Failing(pkg.desc, DocIdOf(outcome.data.spine[k]))
       /\ outcome.data.spine[k].totalCount = 0

\* C5: the number after the last '/' of spine[i].cfi is 2 + 2 * i, i counted
\* from 0 in the returned array
C5_CfiStep ==
  Resolved =>
    \A k \in 1..Len(outcome.data.spine) :
      LET parts == split(outcome.data.spine[k].cfi, "/")
      IN  parts[Len(parts)] = <<ToString(2 + 2 * (k - 1))>>

\* an itemref was skipped, so the step follows the array and not the itemrefs
C5_Witness ==
  /\ Resolved /\ ~ValidPackage(pkg.desc)
  /\ Len(outcome.data.spine) = 2
  /\ outcome.data.spine[2].idref = IdOf(pkg.desc.itemrefs[3])
  /\ outcome.data.spine[2].cfi = <<"/", "6", "/", "4">>

RECURSIVE QSum(_)
QSum(qs) == IF qs = <<>> THEN QInt(0) ELSE QAdd(Head(qs), QSum(Tail(qs)))

\* C6: when the items' totalCount sum to more than 0 the pagination has one
\* element per spine item, each 100 * item.totalCount / sum, and the
\* percentages sum to 100
C6_PercentagesSum ==
  Resolved /\ "pagination" \in DOMAIN outcome.data =>
    LET out   == outcome.data.spine
        els   == outcome.data.pagination.elements
        total == SumSeq([k \in 1..Len(out) |-> out[k].totalCount])
    IN  total > 0 =>
          /\ Len(els) = Len(out)
          /\ \A k \in 1..Len(els) :
               els[k].percentageOfBook = Quot(100 * out[k].totalCount, total)
          /\ QSum([k \in 1..Len(els) |-> els[k].percentageOfBook]) = QInt(100)

\* three items, none a whole number of percent
C6_Witness ==
  /\ Resolved /\ "pagination" \in DOMAIN outcome.data
  /\ Len(outcome.data.pagination.elements) = 3
  /\ \A k \in 1..3 : outcome.data.pagination.elements[k].percentageOfBook.d > 1
  /\ QSum([k \in 1..3 |-> outcome.data.pagination.elements[k].percentageOfBook]) = QInt(100)

-----------------------------------------------------------------------------
(* Explorer.decipher (Explorer.js).  getFile, parseXml and makeAbsolutePath *)
(* are those of utils.                                                      *)
PROTECTION_METHOD_UNKNOWN == Str("unknown")
LCP_PROTECTION_TYPE == Str("http://readium.org/2014/01/lcp#EncryptedContentKey")

\* xmlFile('EncryptedData').each(...) of Explorer's getProtectedFiles: the
\* type defaults to UNKNOWN, and compression is a selection, always truthy
RECURSIVE protectedEach(_, _)
protectedEach(elements, resources) ==
  IF elements = <<>> THEN Ok(resources)
  ELSE LET element == Head(elements)
           uri  == decodeURIComponent(element.uri)
           type == IF element.resource THEN element.resourceXmlns
                   ELSE IF element.retrievalMethod THEN element.retrievalType
                   ELSE PROTECTION_METHOD_UNKNOWN
           data == [t |-> "protection",
                    algorithm |-> element.algorithm,
                    compressionMethod |->
                      IF element.compression THEN element.method ELSE NaN,
                    originalLength |->
                      IF element.compression THEN element.originalLength ELSE NaN,
                    type |-> type]
       IN  IF ~uri.ok THEN Throw
           ELSE protectedEach(Tail(elements),
                              (makeAbsolutePath(uri.v) :> data) @@ resources)

\* the second try block: whatever is thrown there is thrown again
protectedParsed(xmlFile) ==
  IF ~xmlFile.ok THEN Throw ELSE protectedEach(EncryptedData(xmlFile.v), <<>>)

\* the first try block: {} when encryption.xml cannot be read
protectedRead(xmlFile) ==
  IF ~xmlFile.ok THEN Ok(<<>>) ELSE protectedParsed(parseXml(xmlFile.v))

explorerGetProtectedFiles(zip) ==
  protectedRead(getFile(zip, EncryptionPath, STRING_FORMAT))

\* what the promise of one entry settles to: {path, data}, null, or a
\* rejection; Pending before it settles
Pending == [t |-> "pending"]
Failed  == [t |-> "rejected"]

fileRead(filePath, a) == IF a.ok THEN [path |-> filePath, data |-> a.v] ELSE Failed

\* data: await zip.file(filePath).async(BYTES_FORMAT), a TypeError when
\* zip.file gives null
copied(filePath, entry) ==
  IF entry = Null THEN Failed ELSE fileRead(filePath, async(entry, BYTES_FORMAT))

decipheredFile(filePath, r) ==
  [v |-> IF r.ok THEN [path |-> filePath, data |-> r.v] ELSE Null, list |-> r.list]

\* the try block: Lcp.decipherFile(data, protectedFileMap[filePath], license,
\* userKey) binds fetchMode to data, fileData to the protection, protection
\* to license, license to userKey, and leaves key undefined
decipherRead(list, filePath, data, protection, license, userKey) ==
  IF ~data.ok THEN [v |-> Null, list |-> list]
  ELSE decipheredFile(filePath,
                      decipherFile(list, data.v, protection, license, userKey, Undefined))

\* the callback of Object.keys(zip.files).map: [v, list]
mapEntry(list, zip, filePath, protection, license, userKey) ==
  IF protection # Undefined /\ protection.type = LCP_PROTECTION_TYPE
    THEN decipherRead(list, filePath, getFile(zip, filePath, BYTES_FORMAT),
                      protection, license, userKey)
    ELSE [v |-> copied(filePath, zipFile(zip, filePath)), list |-> list]

\* epubFiles.map(file => ... newZip.file(file.path, file.data)): the files
\* of newZip, as the function from their names
Kept(files) ==
  {k \in 1..Len(files) : files[k] # Null /\ files[k].path # EncryptionPath}
added(files) ==
  [name \in {files[k].path : k \in Kept(files)} |->
     files[CHOOSE k \in Kept(files) : files[k].path = name].data]

-----------------------------------------------------------------------------
(* The decipher scenario: archives of up to MaxEntries entries taken from a *)
(* publication with one LCP-protected chapter and one obfuscated font.      *)
Mimetype     == <<"mimetype">>
ChapterName  == OpfDir \o HrefOf(1)
RootedName   == <<"/">> \o ChapterName      \* an entry named from the root
FontName     == OpfDir \o <<"font", ".", "otf">>
ChapterPlain == PlainOf(20)

FileEntry(data) == [readable |-> TRUE, dir |-> FALSE, data |-> data]
FolderEntry     == [readable |-> TRUE, dir |-> TRUE, data |-> Bytes(<<>>)]

ArchiveEncryptionXml(method) ==
  [t |-> "text", kind |-> "encryption",
   entries |-> <<[uri |-> ChapterName,
                  algorithm |-> Str("http://www.w3.org/2001/04/xmlenc#aes256-cbc"),
                  compression |-> TRUE, method |-> method,
                  originalLength |-> Len(ChapterPlain),
                  retrievalMethod |-> TRUE, retrievalType |-> LCP_PROTECTION_TYPE,
                  resource |-> FALSE, resourceXmlns |-> Undefined],
                 [uri |-> FontName,
                  algorithm |-> Str("http://www.idpf.org/2008/embedding"),
                  compression |-> FALSE, method |-> NaN, originalLength |-> NaN,
                  retrievalMethod |-> FALSE, retrievalType |-> Undefined,
                  resource |-> FALSE, resourceXmlns |-> Undefined]>>]

EntryNames == {Mimetype, EncryptionPath, LicensePath, ChapterName, RootedName,
               FontName, OpfDir}

EntryOf(name, method) ==
  IF name = OpfDir THEN FolderEntry
  ELSE IF name = EncryptionPath THEN FileEntry(ArchiveEncryptionXml(method))
  ELSE IF name = LicensePath THEN FileEntry(LicenseJson(License))
  ELSE IF name \in {ChapterName, RootedName}
    THEN FileEntry(Bytes(Protect(ChapterPlain, method, IvOf(3))))
  ELSE IF name = FontName THEN FileEntry(Bytes(<<79, 84, 84, 79>>))
  ELSE FileEntry(Bytes(<<97, 112, 112>>))

\* the entries in archive order, as <<name, entry>>
Archives(method) ==
  {[k \in 1..Len(q) |-> <<q[k], EntryOf(q[k], method)>>] :
     q \in {r \in SeqsUpTo(EntryNames, MaxEntries) :
              \A j, k \in 1..Len(r) : j # k => r[j] # r[k]}}

DecInit ==
  /\ \E method \in {0, ZIP_COMPRESSION_METHOD}, license \in {Null, License},
        userKey \in {KeyLower, KeyOther, KeyShort} :
     \E entries \in Archives(method) :
       arc = [entries |-> entries, license |-> license, userKey |-> userKey,
              method |-> method]
  /\ dpc = "start" /\ dlocals = Null /\ epubFiles = <<>> /\ newZip = <<>>

\* zip = await getZipFromData(epubData); license = license || await
\* getLcpLicense(zip); protectedFileMap = await getProtectedFiles(zip); and
\* the promises of the map are created
DecStart ==
  /\ dpc = "start"
  /\ \E zip \in {FilesOf({arc.entries[k] : k \in 1..Len(arc.entries)})} :
     \E license \in {IF arc.license # Null THEN arc.license ELSE getLcpLicense(zip)},
        protectedFileMap \in {explorerGetProtectedFiles(zip)} :
       IF ~protectedFileMap.ok
         THEN dpc' = "rejected" /\ UNCHANGED <<dlocals, epubFiles>>
         ELSE /\ dpc' = "mapping"
              /\ dlocals' = [zip |-> zip, license |-> license,
                             protectedFileMap |-> protectedFileMap.v]
              /\ epubFiles' = [k \in 1..Len(arc.entries) |-> Pending]
  /\ UNCHANGED <<arc, newZip, contextList>>

\* the promise of entry k settles
DecFile(k) ==
  /\ dpc = "mapping" /\ epubFiles[k] = Pending
  /\ \E r \in {mapEntry(contextList, dlocals.zip, arc.entries[k][1],
                        Lookup(dlocals.protectedFileMap, arc.entries[k][1]),
                        dlocals.license, arc.userKey)} :
       /\ epubFiles' = [epubFiles EXCEPT ![k] = r.v]
       /\ contextList' = r.list
  /\ UNCHANGED <<arc, dpc, dlocals, newZip>>

\* all(promises, 'decipher-files') rejects with the first rejection
DecReject ==
  /\ dpc = "mapping"
  /\ \E k \in 1..Len(epubFiles) : epubFiles[k] = Failed
  /\ dpc' = "rejected"
  /\ UNCHANGED <<arc, dlocals, epubFiles, newZip, contextList>>

\* every promise is fulfilled: the files go to newZip, which is generated
DecGenerate ==
  /\ dpc = "mapping"
  /\ \A k \in 1..Len(epubFiles) : epubFiles[k] \notin {Pending, Failed}
  /\ newZip' = added(epubFiles)
  /\ dpc' = "resolved"
  /\ UNCHANGED <<arc, dlocals, epubFiles, contextList>>

InitDecipher == DecInit /\ contextList = <<>> /\ LcpIdle /\ AnIdle /\ ObjIdle /\ TocIdle /\ CtxIdle /\ UtilIdle /\ WebIdle

NextDecipher ==
  \/ DecStart /\ UNCHANGED <<anVars, lcpVars, objVars, tocVars, ctxVars, utilVars, webVars>>
  \/ \E k \in 1..Len(epubFiles) : DecFile(k) /\ UNCHANGED <<anVars, lcpVars, objVars, tocVars, ctxVars, utilVars, webVars>>
  \/ DecReject /\ UNCHANGED <<anVars, lcpVars, objVars, tocVars, ctxVars, utilVars, webVars>>
  \/ DecGenerate /\ UNCHANGED <<anVars, lcpVars, objVars, tocVars, ctxVars, utilVars, webVars>>

SpecDecipher == InitDecipher /\ [][NextDecipher]_vars

-----------------------------------------------------------------------------
(* Claims on Explorer.decipher *)
InputNames == {arc.entries[k][1] : k \in 1..Len(arc.entries)}

\* the EncryptedData elements of the input's encryption.xml
ListedEntries ==
  IF EncryptionPath \notin InputNames THEN {}
  ELSE {ArchiveEncryptionXml(arc.method).entries[k] :
          k \in 1..Len(ArchiveEncryptionXml(arc.method).entries)}
Listed    == {e.uri : e \in ListedEntries}
ListedLcp == {e.uri : e \in {x \in ListedEntries : x.retrievalType = LCP_PROTECTION_TYPE}}

\* a license is handed in or is in the archive; the user key is its key
HasLicense ==
  (arc.license # Null \/ LicensePath \in InputNames) /\ arc.userKey = KeyLower

\* C9: with a valid license and key, every entry that encryption.xml lists
\* as LCP-protected is in the output archive under the same path with its
\* decrypted (and for method 8 inflated) content
C9_ProtectedDeciphered ==
  dpc = "resolved" /\ HasLicense =>
    \A name \in ListedLcp \cap InputNames :
      name \in DOMAIN newZip /\ newZip[name] = Bytes(ChapterPlain)

\* C10: decipher gives an archive that never holds META-INF/encryption.xml,
\* holds every input entry that is not listed as protected under the same
\* path with the same bytes, and holds no entry the input does not have
C10_Frame ==
  dpc \in {"resolved", "rejected"} =>
    /\ dpc = "resolved"
    /\ EncryptionPath \notin DOMAIN newZip
    /\ DOMAIN newZip \subseteq InputNames
    /\ \A k \in 1..Len(arc.entries) :
         arc.entries[k][1] \notin Listed \cup {EncryptionPath} =>
           /\ arc.entries[k][1] \in DOMAIN newZip
           /\ newZip[arc.entries[k][1]] = async(arc.entries[k][2], BYTES_FORMAT).v

\* C11: with a user key from which no content key can be derived (not an AES
\* key size, so that getContentKey throws), decipher of an archive that holds
\* an LCP-protected entry rejects instead of resolving with an archive
C11_NoContentKeyRejects ==
  /\ dpc \in {"resolved", "rejected"}
  /\ arc.userKey = KeyShort
  /\ ~getContentKey(License, arc.userKey).ok
  /\ ListedLcp \cap InputNames # {}
  => dpc = "rejected"

-----------------------------------------------------------------------------
(* Claims on protection and metadata in the analysis *)

\* the text of the document of spine item k as the archive stores it, '' when
\* the entry is missing or cannot be read
StoredText(k) ==
  LET name == OpfDir \o validSpineItems[k].href
  IN  IF name \in DOMAIN pkg.zip /\ pkg.zip[name].readable
        THEN pkg.zip[name].data ELSE EmptyText

\* C12: on an archive without META-INF/encryption.xml getProtectedFiles gives
\* the empty mapping, so every spine item's protection is undefined and its
\* document is read as plain text
C12_NoEncryptionXml ==
  EncryptionPath \notin DOMAIN pkg.zip =>
    /\ getProtectedFiles(pkg.zip) = <<>>
    /\ \A k \in 1..Len(validSpineItems) :
         validSpineItems[k].protection = Undefined
    /\ \A k \in 1..Len(task) : task[k] = "count" => content[k] = StoredText(k)

\* an archive without encryption.xml whose second document has been read as
\* the text it stores
C12_Witness ==
  /\ EncryptionPath \notin DOMAIN pkg.zip
  /\ Len(validSpineItems) = 2 /\ task[2] = "count"
  /\ validSpineItems[2].protection = Undefined
  /\ content[2] = DocText(DocIdOf(validSpineItems[2]))

\* C13: with a license and a valid user key, a spine item that encryption.xml
\* lists as LCP-protected gets the counts of its decrypted document, those the
\* same document has when it is stored unprotected
C13_ProtectedCounts ==
  Resolved /\ ~IsFixed(pkg.desc) /\ pkg.desc.opf = "ok"
           /\ locals.license = License /\ locals.userKey = KeyLower =>
    LET p == pkg.desc
        out == outcome.data.spine
    IN  \A k \in 1..Len(out) :
          LET i == Resolvable(p)[k]
              c == Contents(p, i)
          IN  ~isEmpty(out[k].protection) /\ DocState(p, i) = "ok" =>
                /\ out[k].characterCount = c[1] /\ out[k].imageCount = c[2]
                /\ out[k].videoCount = c[3]

NavBad(p) == p.nav \in {"missing", "unreadable", "garbage"}

NavItemAnalysed ==
  /\ pkg.desc.nav = "ok" /\ ~IsFixed(pkg.desc)
  /\ \E k \in 1..Len(outcome.data.spine) :
       outcome.data.spine[k].href = HrefOf(1) /\ outcome.data.spine[k].totalCount > 0

\* C25: when analyze resolves, the TOC of its result is the tree that the
\* spine analysis enriched, and every node of it that matches an analysed
\* spine item has its positionInSpine
C25_EnrichedTocInResult ==
  Resolved /\ NavItemAnalysed =>
    /\ outcome.data.toc.t = "array"
    /\ outcome.data.toc = sizedToc(toc)
    /\ \A n \in 1..Len(outcome.data.toc.a) :
         indexOfIsZero(outcome.data.toc.a[n].href, HrefOf(1)) =>
           "positionInSpine" \in DOMAIN outcome.data.toc.a[n]

-----------------------------------------------------------------------------
(* Cover path (zipTools.js).  A promise is fulfilled with v, rejected, or   *)
(* never settled.                                                           *)

Fulfilled(v) == [s |-> "fulfilled", v |-> v]
Rejection    == [s |-> "rejected", v |-> Undefined]
NeverSettled == [s |-> "pending", v |-> Undefined]

\* fileFullPath.split('/').slice(0, -1).join('/'), then '/' unless empty
getDirPath(fileFullPath) ==
  LET dirPath == join(Front(split(fileFullPath, "/")), "/")
  IN  IF dirPath = <<>> THEN <<>> ELSE dirPath \o <<"/">>

\* opf('metadata > meta[name="cover"]'), opf('manifest >
\* item[properties="cover-image"]'), opf('guide > reference[type="cover"]')
MetaCover(opf) ==
  IF opf.kind = "opf"
    THEN LET Is(m) == m.tagName = "meta" /\ m.name = "cover"
         IN  SelectSeq(opf.metadata, Is)
    ELSE <<>>
ManifestCoverImage(opf) ==
  IF opf.kind = "opf"
    THEN LET Is(it) == it.properties = "cover-image" IN SelectSeq(opf.manifest, Is)
    ELSE <<>>
GuideCover(opf) ==
  IF opf.kind = "opf"
    THEN LET Is(ref) == ref.type = "cover" IN SelectSeq(opf.guide, Is)
    ELSE <<>>

\* getImagePathFromXhtml: the src of the first img, else the href of the
\* first image; undefined when there is neither or the attribute is absent
getImagePathFromXhtml(xhtml) ==
  IF xhtml.t # "text" \/ xhtml.kind # "xhtml" THEN Undefined
  ELSE LET IsImg(el)   == el.tagName = "img"
           IsImage(el) == el.tagName = "image"
           coverImg    == SelectSeq(xhtml.nodes, IsImg)
           coverImage  == SelectSeq(xhtml.nodes, IsImage)
       IN  IF coverImg # <<>> THEN coverImg[1].src
           ELSE IF coverImage # <<>> THEN coverImage[1].href
           ELSE Undefined

\* method 1.  A selection is never falsy, so the first test never rejects;
\* without a meta the content attribute is undefined
getCoverFilePathFromMetaCover(opf, basePath) ==
  LET coverItemRef == MetaCover(opf)
      coverItem == ManifestItems(opf, IF coverItemRef = <<>> THEN "undefined"
                                      ELSE coverItemRef[1].content)
  IN  IF isEmpty(Array(coverItem)) THEN Rejection
      ELSE Fulfilled(basePath \o coverItem[1].href)

\* method 2
getCoverFilePathFromManifestItem(opf, basePath) ==
  LET coverItem == ManifestCoverImage(opf)
  IN  IF isEmpty(Array(coverItem)) THEN Rejection
      ELSE Fulfilled(basePath \o coverItem[1].href)

\* getFile(...).then(...) has no rejection handler: a read that is rejected
\* leaves the promise of the method unsettled; a throw of getFile itself
\* rejects the promise when the call is made in its executor
unread(file, inExecutor) ==
  IF file.sync /\ inExecutor THEN Rejection ELSE NeverSettled

coverPageRead(file, itemBasePath) ==
  IF ~file.ok THEN unread(file, TRUE)
  ELSE IF getImagePathFromXhtml(file.v) # Undefined
    THEN Fulfilled(itemBasePath \o getImagePathFromXhtml(file.v).c)
  ELSE Rejection

\* method 3
getCoverFilePathFromGuide(opf, basePath, zip) ==
  LET coverItem == GuideCover(opf)
  IN  IF isEmpty(Array(coverItem)) THEN Rejection
      ELSE coverPageRead(getFile(zip, basePath \o coverItem[1].href, STRING_FORMAT),
                         basePath \o getDirPath(coverItem[1].href))

\* getCoverFilePathFromSpineItem: the first call is made in the executor of
\* method 4, the later ones in the then callback of the read before, where a
\* throw of getFile is lost
RECURSIVE getCoverFilePathFromSpineItem(_, _, _, _, _)
spineItemRead(file, spineItemBasePath, opf, basePath, zip, idrefs, inExecutor) ==
  IF ~file.ok THEN unread(file, inExecutor)
  ELSE IF getImagePathFromXhtml(file.v) # Undefined
    THEN Fulfilled(spineItemBasePath \o getImagePathFromXhtml(file.v).c)
  ELSE getCoverFilePathFromSpineItem(opf, basePath, zip, idrefs, FALSE)

getCoverFilePathFromSpineItem(opf, basePath, zip, idrefs, inExecutor) ==
  IF Len(idrefs) = 0 THEN Rejection
  ELSE LET item == ManifestItems(opf, Head(idrefs))
       IN  IF isEmpty(Array(item)) THEN Rejection
           ELSE spineItemRead(getFile(zip, basePath \o item[1].href, STRING_FORMAT),
                              basePath \o getDirPath(item[1].href),
                              opf, basePath, zip, Tail(idrefs), inExecutor)

\* method 4: spineItems.slice(0, 3)
getCoverFilePathFromSpineItems(opf, basePath, zip) ==
  LET spineItems == SpineItemrefs(opf)
      idrefs == [k \in 1..Min(3, Len(spineItems)) |-> spineItems[k].idref]
  IN  IF isEmpty(Array(spineItems)) THEN Rejection
      ELSE getCoverFilePathFromSpineItem(opf, basePath, zip, idrefs, TRUE)

\* promise.then(resolve).catch(() => next): the next method is tried only
\* when the promise before is rejected
orElse(r, next) == IF r.s = "rejected" THEN next ELSE r

getCoverFilePath(zip, opf, basePath) ==
  orElse(getCoverFilePathFromMetaCover(opf, basePath),
    orElse(getCoverFilePathFromManifestItem(opf, basePath),
      orElse(getCoverFilePathFromGuide(opf, basePath, zip),
             getCoverFilePathFromSpineItems(opf, basePath, zip))))

coverOf(zip, c) ==
  IF ~c.ok THEN Rejection ELSE getCoverFilePath(zip, c.v.opf, c.v.basePath)

\* zipTools.js getCoverPath
getCoverPath(zip) == coverOf(zip, getOpfContent(zip))

-----------------------------------------------------------------------------
(* The accessors of a ZipEpub object (ZipEpub.js)                           *)

\* the number 0
Zero == [t |-> "number", n |-> 0]

\* metadata['dc:identifier'] || 0
uidOf(metadata) ==
  IF "dc:identifier" \in DOMAIN metadata.m /\ metadata.m["dc:identifier"] # ""
    THEN Str(metadata.m["dc:identifier"]) ELSE Zero

\* how a call ended: fulfilled with v, rejected, or left pending for ever
Settled(call, v) == [call |-> call, s |-> "fulfilled", v |-> v]
Refused(call)    == [call |-> call, s |-> "rejected", v |-> Undefined]

\* getUid: if (this.uid === null) { ... this.uid = metadata['dc:identifier'] || 0 }
\* return this.uid
uidFetched(metadata) ==
  IF ~metadata.ok
    THEN /\ calls' = Append(calls, Refused("getUid"))
         /\ UNCHANGED zipEpub
    ELSE /\ zipEpub' = [zipEpub EXCEPT !.uid = uidOf(metadata.v)]
         /\ calls' = Append(calls, Settled("getUid", uidOf(metadata.v)))

GetUid ==
  /\ zipEpub # Null /\ Len(calls) < MaxCalls
  /\ IF zipEpub.uid = Null
       THEN \E metadata \in {getMetadata(pkg.zip)} : uidFetched(metadata)
       ELSE /\ calls' = Append(calls, Settled("getUid", zipEpub.uid))
            /\ UNCHANGED zipEpub
  /\ UNCHANGED pkg

\* the method getMetadata: if (!this._metadata) this._metadata = await
\* getMetadata(this._zip); return this._metadata
metadataFetched(metadata) ==
  IF ~metadata.ok
    THEN /\ calls' = Append(calls, Refused("getMetadata"))
         /\ UNCHANGED zipEpub
    ELSE /\ zipEpub' = [zipEpub EXCEPT !._metadata = metadata.v]
         /\ calls' = Append(calls, Settled("getMetadata", metadata.v))

GetMetadata ==
  /\ zipEpub # Null /\ Len(calls) < MaxCalls
  /\ IF zipEpub._metadata = Undefined
       THEN \E metadata \in {getMetadata(pkg.zip)} : metadataFetched(metadata)
       ELSE /\ calls' = Append(calls, Settled("getMetadata", zipEpub._metadata))
            /\ UNCHANGED zipEpub
  /\ UNCHANGED pkg

\* getCoverPath() { return getCoverPath(this._zip); }
GetCoverPath ==
  /\ zipEpub # Null /\ Len(calls) < MaxCalls
  /\ \E r \in {getCoverPath(pkg.zip)} :
       calls' = Append(calls, [call |-> "getCoverPath", s |-> r.s, v |-> r.v])
  /\ UNCHANGED <<pkg, zipEpub>>

-----------------------------------------------------------------------------
(* The accessor scenario: package documents with up to MaxIdentifiers        *)
(* dc:identifier elements, the package's unique-identifier being "uid"       *)

IdentifierElements ==
  {[id |-> i, text |-> x] : i \in {"uid", "other", ""},
                            x \in {"urn:isbn:123", "other-id", ""}}

IdentifierInputs ==
  {[Base EXCEPT !.identifiers = q] : q \in SeqsUpTo(IdentifierElements, MaxIdentifiers)}

\* the cover declarations, over spines that hold a document without image
\* (3) before one with an image, and documents that are missing or unreadable
CoverInputs ==
  {[Base EXCEPT !.itemrefs = q, !.dangling = d, !.fault = f,
                !.cover = [meta |-> m, manifest |-> i, guide |-> g]] :
     q \in {<<>>, <<1>>, <<3, 1>>, <<3, 2>>, <<3, 3, 1>>, <<3, 3, 3, 1>>},
     d \in {{}, {3}},
     f \in {NoFault} \cup {[id |-> k, state |-> st] :
                              k \in {1, 3}, st \in {"missing", "unreadable"}},
     m \in {"none", "item", "dangling"}, i \in BOOLEAN, g \in 0..2}

ObjPackages ==
  IdentifierInputs \cup CoverInputs
  \cup {[Base EXCEPT !.container = c, !.opf = o] :
          c \in {"ok", "missing"}, o \in {"ok", "missing", "garbage"}}

\* new ZipEpub(zip, license, keys): the constructor sets _zip, _license and
\* _keys, and no other field
ObjInit ==
  /\ \E p \in ObjPackages :
       pkg = [zip |-> ZipOf(p), keys |-> p.keys, desc |-> p, license |-> Null]
  /\ zipEpub = [uid |-> Undefined, _metadata |-> Undefined]
  /\ calls = <<>>
  /\ locals = Null /\ pc = "idle" /\ validSpineItems = <<>> /\ toc = Null
  /\ task = <<>> /\ content = <<>> /\ slots = <<>> /\ completion = <<>>
  /\ outcome = Null

InitObject == ObjInit /\ contextList = <<>> /\ LcpIdle /\ DecIdle /\ TocIdle /\ CtxIdle /\ UtilIdle /\ WebIdle

objRest == <<locals, pc, validSpineItems, toc, task, content, slots, completion,
             outcome, contextList>>

NextObject ==
  \/ GetUid /\ UNCHANGED <<objRest, lcpVars, decVars, tocVars, ctxVars, utilVars, webVars>>
  \/ GetMetadata /\ UNCHANGED <<objRest, lcpVars, decVars, tocVars, ctxVars, utilVars, webVars>>
  \/ GetCoverPath /\ UNCHANGED <<objRest, lcpVars, decVars, tocVars, ctxVars, utilVars, webVars>>

SpecObject == InitObject /\ [][NextObject]_vars

-----------------------------------------------------------------------------
(* Claims on the accessors *)

\* the positions of the dc:identifier elements whose id is the package's
\* unique-identifier
Matching(p) == {k \in 1..Len(p.identifiers) : p.identifiers[k].id = "uid"}

\* C14: with several dc:identifier elements of which one has the id named by
\* unique-identifier, metadata['dc:identifier'] is the text of that element,
\* whatever the number of identifiers and the position of that element
C14_UniqueIdentifierWins ==
  \A n \in 1..Len(calls) :
    LET p == pkg.desc
        r == calls[n]
    IN  r.call = "getMetadata" /\ r.s = "fulfilled" /\ Len(p.identifiers) > 1
        /\ Cardinality(Matching(p)) = 1 =>
          /\ "dc:identifier" \in DOMAIN r.v.m
          /\ r.v.m["dc:identifier"] = p.identifiers[CHOOSE k \in Matching(p) : TRUE].text

\* C15: getUid() on a new ZipEpub resolves with the dc:identifier of the
\* metadata, or 0 when the metadata has none, and so do the later calls
C15_UidFromMetadata ==
  \A n \in 1..Len(calls) :
    calls[n].call = "getUid" /\ calls[n].s = "fulfilled" /\ getMetadata(pkg.zip).ok =>
      calls[n].v = uidOf(getMetadata(pkg.zip).v)

\* what each of the four methods gives on its own for the package read
Strategies(zip) ==
  LET c == getOpfContent(zip).v
  IN  <<getCoverFilePathFromMetaCover(c.opf, c.basePath),
        getCoverFilePathFromManifestItem(c.opf, c.basePath),
        getCoverFilePathFromGuide(c.opf, c.basePath, zip),
        getCoverFilePathFromSpineItems(c.opf, c.basePath, zip)>>

Succeeding(zip) == {k \in 1..4 : Strategies(zip)[k].s = "fulfilled"}

\* C17: getCoverPath resolves with the path of the lowest-numbered method that
\* succeeds, whatever the later methods would give, and rejects only when all
\* four fail
C17_LowestStrategyWins ==
  \A n \in 1..Len(calls) :
    calls[n].call = "getCoverPath" /\ getOpfContent(pkg.zip).ok =>
      /\ Succeeding(pkg.zip) # {} =>
           /\ calls[n].s = "fulfilled"
           /\ \E k \in Succeeding(pkg.zip) :
                /\ \A h \in Succeeding(pkg.zip) : k <= h
                /\ calls[n].v = Strategies(pkg.zip)[k].v
      /\ calls[n].s = "rejected" => Succeeding(pkg.zip) = {}

\* C27: the promise of getCoverPath always settles: it is fulfilled with a
\* path or rejected, also when the guide's cover page or one of the first
\* three spine documents is missing, unreadable or without image
C27_CoverSettles ==
  \A n \in 1..Len(calls) :
    calls[n].call = "getCoverPath" => calls[n].s \in {"fulfilled", "rejected"}

-----------------------------------------------------------------------------
(* TocParser on its own: parse applied to a navigation document             *)

\* every list of entries with n entries in all, nested to any depth; kind
\* "ncx" nests navPoint in navPoint, kind "nav" nests li in an ol of the li
RECURSIVE Forests(_, _)
Forests(n, kind) ==
  IF n = 0 THEN {<<>>}
  ELSE UNION {
         {<<[hasChildren |-> TRUE, label |-> <<n, k>>, href |-> Chars(HrefOf(1)),
             kids   |-> IF kind = "ncx" THEN sub ELSE <<>>,
             nested |-> IF kind = "ncx" THEN <<>> ELSE sub]>> \o rest :
            sub \in Forests(k - 1, kind), rest \in Forests(n - k, kind)} : k \in 1..n}

\* the first entry without child elements, or with a link that has no href
Damaged(roots, how) ==
  IF roots = <<>> THEN roots
  ELSE <<IF how = "empty" THEN [roots[1] EXCEPT !.hasChildren = FALSE]
         ELSE [roots[1] EXCEPT !.href = Undefined]>> \o Tail(roots)

TocDocuments ==
  UNION {{[t |-> "dom", kind |-> kind, roots |-> roots] :
            roots \in UNION {Forests(n, kind) : n \in 0..MaxNodes}} :
         kind \in {"ncx", "nav"}}
  \cup {[t |-> "dom", kind |-> "ncx", roots |-> Damaged(roots, how)] :
          how \in {"empty", "nohref"},
          roots \in UNION {Forests(n, "ncx") : n \in 1..3}}

TocInit == tocInput \in TocDocuments /\ tocResult = [step |-> "start"]

\* parse, up to the call of setPositions
TocParseItems ==
  /\ tocResult.step = "start"
  /\ \E items \in {parseNavItem(NavEntryPoints(tocInput), Null)} :
       tocResult' = IF items.ok THEN [step |-> "items", items |-> items.v]
                    ELSE [step |-> "thrown"]
  /\ UNCHANGED tocInput

\* setPositions(items, 1, 0); return items
TocSetPositions ==
  /\ tocResult.step = "items"
  /\ tocResult' = [step |-> "returned", items |-> positioned(Ok(tocResult.items)).v]
  /\ UNCHANGED tocInput

InitToc == TocInit /\ contextList = <<>> /\ LcpIdle /\ AnIdle /\ DecIdle /\ ObjIdle /\ CtxIdle /\ UtilIdle /\ WebIdle

NextToc ==
  \/ TocParseItems /\ UNCHANGED <<anVars, lcpVars, decVars, objVars, ctxVars, utilVars, webVars, contextList>>
  \/ TocSetPositions /\ UNCHANGED <<anVars, lcpVars, decVars, objVars, ctxVars, utilVars, webVars, contextList>>

SpecToc == InitToc /\ [][NextToc]_vars

-----------------------------------------------------------------------------
(* Claims on TocParser *)

\* every node of items is at level depth, and so on below it
RECURSIVE LevelsAre(_, _)
LevelsAre(items, depth) ==
  \A k \in 1..Len(items) :
    /\ items[k].level = depth
    /\ LevelsAre(items[k].items, depth + 1)

\* exactly the nodes without children carry a position
RECURSIVE LeavesPositioned(_)
LeavesPositioned(items) ==
  \A k \in 1..Len(items) :
    /\ ToString(items[k].position) # ToString(Undefined) <=> items[k].items = <<>>
    /\ LeavesPositioned(items[k].items)

\* the positions of the leaves, in document order
RECURSIVE LeafPositions(_)
LeafPositions(items) ==
  IF items = <<>> THEN <<>>
  ELSE (IF Head(items).items = <<>> THEN <<Head(items).position>>
        ELSE LeafPositions(Head(items).items)) \o LeafPositions(Tail(items))

\* the labels, in document order, of the entries parse reaches: in an NCX
\* all that have child elements, in a navigation document the top ones
RECURSIVE DocumentLabels(_)
DocumentLabels(nodes) ==
  IF nodes = <<>> THEN <<>>
  ELSE (IF Head(nodes).hasChildren
          THEN <<Head(nodes).label>> \o DocumentLabels(Head(nodes).kids)
          ELSE <<>>)
       \o DocumentLabels(Tail(nodes))

RECURSIVE ItemLabels(_)
ItemLabels(items) ==
  IF items = <<>> THEN <<>>
  ELSE <<Head(items).label>> \o ItemLabels(Head(items).items)
       \o ItemLabels(Tail(items))

\* C16: in the items parse returns every node's level is its depth (1 at the
\* top), exactly the nodes without children carry a position, the positions of
\* the leaves in document order are 1, 2, ..., n, and the nodes are those of
\* the document in document order
C16_TocNumbering ==
  tocResult # Null /\ tocResult.step = "returned" =>
    LET items == tocResult.items
        leaves == LeafPositions(items)
    IN  /\ LevelsAre(items, 1)
        /\ LeavesPositioned(items)
        /\ leaves = [k \in 1..Len(leaves) |-> k]
        /\ ItemLabels(items) = DocumentLabels(tocInput.roots)

\* three top-level navPoints: positions 1, 2, 3 at level 1
C16_Witness ==
  /\ tocResult # Null /\ tocResult.step = "returned"
  /\ tocInput.kind = "ncx"
  /\ Len(tocResult.items) = 3
  /\ \A k \in 1..3 : tocResult.items[k].position = k /\ tocResult.items[k].level = 1

\* items are the li elements nodes, one node per li in document order, with
\* the li elements of its ol as the node's items one level below; a node with
\* items is no end point and has no position
RECURSIVE MirrorsNav(_, _, _)
MirrorsNav(items, nodes, depth) ==
  /\ Len(items) = Len(nodes)
  /\ \A k \in 1..Len(nodes) :
       /\ items[k].label = nodes[k].label
       /\ items[k].href = nodes[k].href.c
       /\ items[k].level = depth
       /\ MirrorsNav(items[k].items, nodes[k].nested, depth + 1)
       /\ nodes[k].nested # <<>> =>
            ~items[k].endPoint /\ items[k].position = Undefined

\* C28: on an EPUB3 navigation document the root nodes are the li children
\* of nav[epub:type=toc] > ol in document order, each li nested in an ol of
\* a parent li is a child of the parent's node one level below, the parent
\* is no end point and has no position, and label and href are the anchor's
C28_NavNesting ==
  tocResult # Null /\ tocResult.step = "returned" /\ tocInput.kind = "nav" =>
    MirrorsNav(tocResult.items, tocInput.roots, 1)

-----------------------------------------------------------------------------
(* Concurrent decipher calls on the Lcp singleton.  getContext reads the     *)
(* cache, awaits createContext, and stores the context after the await;     *)
(* createContext calls getContentKey before its own await.                  *)

\* let context = this.contextList[key]; if (context) return context;
\* context = await createContext(license, key): the content key is derived
\* in the call, the store waits for the await
contextCreated(i, c) ==
  /\ inflight' = [inflight EXCEPT ![i] =
                    IF c.ok THEN [@ EXCEPT !.pos = "created", !.context = c.v]
                    ELSE [@ EXCEPT !.pos = "rejected"]]
  /\ derivations' =
       IF c.ok THEN Append(derivations, ContextKey(inflight[i].license, inflight[i].key))
       ELSE derivations

GetContextCheck(i) ==
  /\ inflight[i].pos = "called"
  /\ IF ContextKey(inflight[i].license, inflight[i].key) \in DOMAIN contextList
       THEN /\ inflight' = [inflight EXCEPT
                              ![i].pos = "context",
                              ![i].context =
                                contextList[ContextKey(inflight[i].license, inflight[i].key)]]
            /\ UNCHANGED derivations
       ELSE \E c \in {createContext(inflight[i].license, inflight[i].key)} :
              contextCreated(i, c)
  /\ UNCHANGED contextList

\* this.contextList[key] = context; return context
GetContextStore(i) ==
  /\ inflight[i].pos = "created"
  /\ contextList' = (ContextKey(inflight[i].license, inflight[i].key)
                       :> inflight[i].context) @@ contextList
  /\ inflight' = [inflight EXCEPT ![i].pos = "context"]
  /\ UNCHANGED derivations

\* decipherData: return decipher(context.contentKey, fileData, 'arraybuffer')
DecipherInContext(i) ==
  /\ inflight[i].pos = "context"
  /\ \E r \in {decipher(inflight[i].context.contentKey, inflight[i].fileData,
                        "arraybuffer")} :
       inflight' = [inflight EXCEPT ![i].pos = IF r.ok THEN "done" ELSE "rejected"]
  /\ UNCHANGED <<contextList, derivations>>

\* the license and key of a call: the publication's license with the user's
\* key, with another user's key or with a key of no AES size, or a license
\* without the encryption block
CallInputs ==
  {<<License, KeyLower>>, <<License, KeyOther>>, <<License, KeyShort>>,
   <<MalformedLicense, KeyLower>>}

\* up to MaxFlights calls in flight
CtxInit ==
  /\ \E ins \in SeqsUpTo(CallInputs, MaxFlights) :
       /\ ins # <<>>
       /\ inflight = [i \in 1..Len(ins) |->
                        [license |-> ins[i][1], key |-> ins[i][2],
                         fileData |-> Bytes(Protect(PlainOf(4 + i), 0, IvOf(3))),
                         pos |-> "called", context |-> Undefined]]
  /\ derivations = <<>>

InitContext ==
  CtxInit /\ contextList = <<>> /\ LcpIdle /\ AnIdle /\ DecIdle /\ ObjIdle /\ TocIdle
    /\ UtilIdle /\ WebIdle

NextContext ==
  \/ \E i \in 1..Len(inflight) :
       GetContextCheck(i) /\ UNCHANGED <<anVars, lcpVars, decVars, objVars, tocVars, utilVars, webVars>>
  \/ \E i \in 1..Len(inflight) :
       GetContextStore(i) /\ UNCHANGED <<anVars, lcpVars, decVars, objVars, tocVars, utilVars, webVars>>
  \/ \E i \in 1..Len(inflight) :
       DecipherInContext(i) /\ UNCHANGED <<anVars, lcpVars, decVars, objVars, tocVars, utilVars, webVars>>

SpecContext == InitContext /\ [][NextContext]_vars

-----------------------------------------------------------------------------
(* Claims on the content-key cache *)

\* how often the content key of cache key ck has been derived
Derived(ck) == Cardinality({n \in 1..Len(derivations) : derivations[n] = ck})

\* C20: with several decipher calls in flight for one license and user key
\* the content key of the pair is derived at most once, the other calls
\* reusing the cached context
C20_DerivedOnce ==
  \A i \in 1..Len(inflight) :
    Derived(ContextKey(inflight[i].license, inflight[i].key)) <= 1

\* the call's user key does not open the license's content key: the
\* derivation fails, or what it gives is not the content key
Underivable(call) ==
  \/ ~getContentKey(call.license, call.key).ok
  \/ getContentKey(call.license, call.key).v # BinStr(ContentKey)

\* C21: when the content key cannot be derived from the license and the user
\* key, getContext does not reject and no entry for the pair is left in the
\* cache
C21_FailsSilently ==
  \A i \in 1..Len(inflight) :
    Underivable(inflight[i]) =>
      /\ ~(inflight[i].pos = "rejected" /\ inflight[i].context = Undefined)
      /\ ContextKey(inflight[i].license, inflight[i].key) \notin DOMAIN contextList

-----------------------------------------------------------------------------
(* The functions of utils called on their own: utilCall is the function's   *)
(* name with its arguments, utilResult what it returned.                    *)

Called(fn) == utilCall.fn = fn /\ utilResult = Null

\* an EncryptedData element of encryption.xml, the k-th of its document
EncryptedElements(k) ==
  {[uri |-> OpfDir \o HrefOf(k), algorithm |-> algorithm,
    compression |-> TRUE, method |-> 0, originalLength |-> 8,
    retrievalMethod |-> r[1], retrievalType |-> r[2],
    resource |-> x[1], resourceXmlns |-> x[2]] :
     algorithm \in {Str("http://www.w3.org/2001/04/xmlenc#aes256-cbc"), Undefined},
     r \in {<<FALSE, Undefined>>, <<TRUE, Undefined>>, <<TRUE, LCP_PROTECTION_TYPE>>},
     x \in {<<FALSE, Undefined>>, <<TRUE, Undefined>>,
            <<TRUE, Str("http://ns.adobe.com/adept")>>}}

RECURSIVE EncryptedSeqs(_)
EncryptedSeqs(n) ==
  IF n = 0 THEN {<<>>}
  ELSE EncryptedSeqs(n - 1)
       \cup {Append(q, e) : q \in {r \in EncryptedSeqs(n - 1) : Len(r) = n - 1},
                            e \in EncryptedElements(n)}

EncryptionDocuments ==
  {[t |-> "text", kind |-> "encryption", entries |-> q] : q \in EncryptedSeqs(MaxEncrypted)}

EncryptionCalls ==
  {[fn |-> fn, args |-> <<d>>] :
     fn \in {"extractEncryptionsData", "getProtectedFiles"}, d \in EncryptionDocuments}

\* utils.extractEncryptionsData(encryptionFile)
ExtractEncryptionsData ==
  /\ Called("extractEncryptionsData")
  /\ utilResult' = extractEncryptionsData(utilCall.args[1])
  /\ UNCHANGED utilCall

\* the each loop of Explorer's getProtectedFiles on the parsed encryption.xml
ExplorerProtectedFiles ==
  /\ Called("getProtectedFiles")
  /\ utilResult' = protectedEach(EncryptedData(utilCall.args[1]), <<>>)
  /\ UNCHANGED utilCall

\* a TOC item after the spine analysis, in the document of spine item k: its
\* positionInSpine is 0 or 1/2, or the item matched no spine item and has none
Positions == {QInt(0), Quot(1, 2)}
PlacedItems(kids) ==
  UNION {{[href |-> href, label |-> <<"L">>, level |-> 1, items |-> kids]}
         \cup {[href |-> href, label |-> <<"L">>, level |-> 1, items |-> kids,
                positionInSpine |-> position] : position \in Positions} :
            href \in {HrefOf(1) \o <<"#", "x">>, HrefOf(2)}}

RECURSIVE ListsOf(_, _)
ListsOf(S, n) ==
  IF n = 0 THEN {<<>>}
  ELSE ListsOf(S, n - 1)
       \cup {Append(q, e) : q \in {r \in ListsOf(S, n - 1) : Len(r) = n - 1}, e \in S}

\* the items below another: leaves that enrichTocItems has placed
PlacedKids == {item \in PlacedItems(<<>>) : "positionInSpine" \in DOMAIN item}

\* a list of up to MaxTocItems items, the first of which may have up to
\* MaxTocItems items below it
PlacedTocs ==
  {<<>>} \cup
  {<<first>> \o rest :
     first \in UNION {PlacedItems(kids) : kids \in ListsOf(PlacedKids, MaxTocItems)},
     rest \in ListsOf(PlacedItems(<<>>), MaxTocItems - 1)}

SizeCalls == {[fn |-> "computeTocItemsSizes", args |-> <<Array(items)>>] : items \in PlacedTocs}

\* computeTocItemsSizes(items), the items as they are after the call
ComputeTocItemsSizes ==
  /\ Called("computeTocItemsSizes")
  /\ utilResult' = sizedToc(utilCall.args[1])
  /\ UNCHANGED utilCall

\* TOC items by label: item n of a list labelled from prefix, with the items
\* below it
LabelledItems(prefix, n, level, kidLists) ==
  {[href |-> href, label |-> <<prefix \o ToString(n)>>, level |-> level,
    items |-> kids] :
     href \in {HrefOf(1), HrefOf(2) \o <<"#", "x">>}, kids \in kidLists}

RECURSIVE LabelledLists(_, _, _, _)
LabelledLists(prefix, n, level, kidLists) ==
  IF n = 0 THEN {<<>>}
  ELSE LabelledLists(prefix, n - 1, level, kidLists)
       \cup {Append(q, e) :
               q \in {r \in LabelledLists(prefix, n - 1, level, kidLists) : Len(r) = n - 1},
               e \in LabelledItems(prefix, n, level, IF n = 1 THEN kidLists ELSE {<<>>})}

\* null, or a list of up to MaxTocItems items, the first of which may have
\* up to MaxTocItems items below it
LabelledTocs ==
  {Null} \cup
  {Array(q) : q \in LabelledLists("T", MaxTocItems, 1,
                                   LabelledLists("K", MaxTocItems, 2, {<<>>}))}

\* the spine as analyze hands it over: documents in any order, with counts
AnalysedSpines ==
  {[k \in 1..Len(q) |-> [href |-> HrefOf(q[k]), totalCount |-> q[k]]] : q \in InjSeqs}

PaginationCalls ==
  {[fn |-> "generatePagination", args |-> <<tocItems, spines>>] :
     tocItems \in LabelledTocs, spines \in AnalysedSpines}

\* generatePagination(tocItems, spines)
GeneratePagination ==
  /\ Called("generatePagination")
  /\ utilResult' = generatePagination(utilCall.args[1], utilCall.args[2])
  /\ UNCHANGED utilCall

\* the paths container.xml can declare for the package document: at the
\* root, one directory down, two directories down, with a '-' or a space in
\* the directory or in the name
PackagePaths ==
  {<<"content", ".", "opf">>,
   <<"OEBPS", "/", "content", ".", "opf">>,
   <<"OEBPS", "/", "package", "/", "content", ".", "opf">>,
   <<"OEBPS", "/", "my", "-", "book", ".", "opf">>,
   <<"my", " ", "epub", "/", "content", ".", "opf">>,
   <<"EPUB_3", "/", "book_1", ".", "opf">>}

\* an archive of container.xml and the package document it declares
PackagedZip(path) ==
  FilesOf({<<ContainerPath, Entry("ok", ContainerXml(<<path>>))>>,
           <<path, Entry("ok", OpfXml(Base))>>})

OpfCalls == {[fn |-> "getOpfContent", args |-> <<path>>] : path \in PackagePaths}

\* getOpfContent(zip)
GetOpfContent ==
  /\ Called("getOpfContent")
  /\ utilResult' = getOpfContent(PackagedZip(utilCall.args[1]))
  /\ UNCHANGED utilCall

UtilCalls == EncryptionCalls \cup SizeCalls \cup PaginationCalls \cup OpfCalls

UtilInit == utilCall \in UtilCalls /\ utilResult = Null

InitUtils ==
  UtilInit /\ contextList = <<>> /\ LcpIdle /\ AnIdle /\ DecIdle /\ ObjIdle /\ TocIdle
    /\ CtxIdle /\ WebIdle

utilRest == <<anVars, lcpVars, decVars, objVars, tocVars, ctxVars, webVars, contextList>>

NextUtils ==
  \/ ExtractEncryptionsData /\ UNCHANGED utilRest
  \/ ExplorerProtectedFiles /\ UNCHANGED utilRest
  \/ ComputeTocItemsSizes /\ UNCHANGED utilRest
  \/ GeneratePagination /\ UNCHANGED utilRest
  \/ GetOpfContent /\ UNCHANGED utilRest

SpecUtils == InitUtils /\ [][NextUtils]_vars

-----------------------------------------------------------------------------
(* Claims on the functions of utils *)

EncryptionCall == utilCall.fn \in {"extractEncryptionsData", "getProtectedFiles"}

\* the value type has when neither element is there
UnknownType ==
  IF utilCall.fn = "getProtectedFiles" THEN PROTECTION_METHOD_UNKNOWN ELSE Null

\* C22: for every EncryptedData entry, type is the RetrievalMethod's Type
\* when there is a RetrievalMethod (also when there is a resource element),
\* else the resource element's xmlns, else the unknown value; algorithm is
\* the Algorithm attribute of EncryptionMethod
C22_RetrievalMethodFirst ==
  EncryptionCall /\ utilResult # Null =>
    /\ utilResult.ok
    /\ \A k \in 1..Len(utilCall.args[1].entries) :
         LET element == utilCall.args[1].entries[k]
             data    == utilResult.v[makeAbsolutePath(element.uri)]
         IN  /\ data.algorithm = element.algorithm
             /\ data.type = IF element.retrievalMethod THEN element.retrievalType
                            ELSE IF element.resource THEN element.resourceXmlns
                            ELSE UnknownType

\* every item of the tree has a positionInSpine
RECURSIVE AllPlaced(_)
AllPlaced(items) ==
  \A i \in 1..Len(items) :
    "positionInSpine" \in DOMAIN items[i] /\ AllPlaced(items[i].items)

\* the sizes as the rule states them: up to the next sibling when that lies
\* in the same spine document, else up to the end of the parent's share;
\* never below zero
RECURSIVE SizesByRule(_, _, _)
SizesByRule(items, basePosition, baseSize) ==
  [i \in 1..Len(items) |->
     LET item == items[i]
         upTo == IF i < Len(items) /\ inSameSpine(item, items[i + 1])
                   THEN QSub(PositionInSpine(items[i + 1]), PositionInSpine(item))
                   ELSE QSub(QAdd(baseSize, basePosition), PositionInSpine(item))
         sizeInSpine == IF QNegative(upTo) THEN QInt(0) ELSE upTo
     IN  ObjectAssign([item EXCEPT !.items =
                         SizesByRule(@, PositionInSpine(item), sizeInSpine)],
                      [percentageOfSpine |-> QTimes(100, sizeInSpine)])]

SizesCall == utilCall.fn = "computeTocItemsSizes"

\* C23: computeTocItemsSizes gives a node that is the last of its siblings,
\* or whose next sibling lies in another spine document, the size baseSize +
\* basePosition - positionInSpine, and a node whose next sibling lies in the
\* same document the size next.positionInSpine - positionInSpine;
\* percentageOfSpine is 100 times the size
C23_SizesByRule ==
  SizesCall /\ utilResult # Null /\ AllPlaced(utilCall.args[1].a) =>
    utilResult.a = SizesByRule(utilCall.args[1].a, QInt(0), QInt(1))

\* every node of the tree has a percentageOfSpine that is a number >= 0
RECURSIVE AllSized(_)
AllSized(items) ==
  \A i \in 1..Len(items) :
    /\ "percentageOfSpine" \in DOMAIN items[i]
    /\ items[i].percentageOfSpine.d # 0
    /\ items[i].percentageOfSpine.n >= 0
    /\ AllSized(items[i].items)

\* C24: after computeTocItemsSizes every node at every depth has a
\* percentageOfSpine that is a number greater than or equal to 0, whatever
\* the positions are and also for nodes without a positionInSpine
C24_PercentagesNotNegative ==
  SizesCall /\ utilResult # Null => AllSized(utilResult.a)

PaginationCall == utilCall.fn = "generatePagination"

\* the TOC nodes that match spine item i, as findTocItemsInSpine lists them
MatchingNodes(i) ==
  findTocItemsInSpine(OrEmpty(utilCall.args[1]), utilCall.args[2][i].href)

\* the label the rule gives element i: that of the first matching node, else
\* the label of the element before, else the file name without its extension
RECURSIVE LabelByRule(_)
LabelByRule(i) ==
  IF MatchingNodes(i) # <<>> THEN MatchingNodes(i)[1].label
  ELSE IF i > 1 THEN LabelByRule(i - 1)
  ELSE split(utilCall.args[2][1].href, ".")[1]

LastSlash(path) ==
  LET at == {k \in 1..Len(path) : path[k] = "/"}
  IN  IF at = {} THEN 0 ELSE CHOOSE k \in at : \A j \in at : j <= k

\* C30: the basePath getOpfContent gives is the directory of the package
\* document's path, everything up to and including its last '/', empty when
\* the path has no directory, whatever the depth and the characters
C30_BasePathIsDirectory ==
  utilCall # Null /\ utilCall.fn = "getOpfContent" /\ utilResult # Null =>
    /\ utilResult.ok
    /\ utilResult.v.basePath =
         SubSeq(utilCall.args[1], 1, LastSlash(utilCall.args[1]))

-----------------------------------------------------------------------------
(* WebEpub.getToc (WebEpub.js, and the version of it that keeps _toc).  A   *)
(* toc node of manifest.json is [href, children, level, endPoint,           *)
(* position]; children is undefined or the array of the nodes below.        *)

Number(n) == [t |-> "number", n |-> n]

\* setPositions of WebEpub: [items, endpoints], the items as they are after
\* the call, endpoints what the call returns
RECURSIVE webSetPositions(_, _, _)
webSetPositions(items, level, endpoints) ==
  IF items = <<>> THEN [items |-> <<>>, endpoints |-> endpoints]
  ELSE LET item == Head(items)
           endPoint == item.children = Undefined \/ Len(item.children.a) = 0
           sub  == IF endPoint THEN [items |-> <<>>, endpoints |-> endpoints + 1]
                   ELSE webSetPositions(item.children.a, level + 1, endpoints)
           here == [item EXCEPT !.level = level, !.endPoint = endPoint,
                                !.position = IF endPoint THEN endpoints + 1 ELSE @,
                                !.children = IF endPoint THEN @ ELSE Array(sub.items)]
           rest == webSetPositions(Tail(items), level, sub.endpoints)
       IN  [items |-> <<here>> \o rest.items, endpoints |-> rest.endpoints]

\* manifest(): the kept manifest, else what the fetch of manifest.json gives
manifestOf(epub) ==
  IF epub._manifest # Undefined THEN Ok(epub._manifest)
  ELSE IF epub.fetch = "ok" THEN Ok(epub.served) ELSE Throw

\* the call ended: the object after it, and the call's outcome
webReturn(epub, settled) ==
  /\ webEpub' = epub
  /\ webCalls' = Append(webCalls, settled)

\* setPositions(tocItems, 1, 0) changes the nodes of the manifest in place
tocPositioned(epub, manifest) ==
  [epub EXCEPT !._manifest = [manifest EXCEPT !.toc =
                                Array(webSetPositions(manifest.toc.a, 1, 0).items)]]

\* getToc of WebEpub.js: setPositions(tocItems, 1, 0); return tocItems
tocItemsReturned(epub, manifest) ==
  IF ~manifest.ok THEN webReturn(epub, Rejection)
  ELSE IF manifest.v.toc = Undefined
    THEN webReturn([epub EXCEPT !._manifest = manifest.v], Rejection)
  ELSE webReturn(tocPositioned(epub, manifest.v),
                 Fulfilled(tocPositioned(epub, manifest.v)._manifest.toc))

WebGetToc ==
  /\ webEpub # Null /\ ~webEpub.keepsToc /\ Len(webCalls) < MaxCalls
  /\ tocItemsReturned(webEpub, manifestOf(webEpub))
  /\ UNCHANGED <<anVars, lcpVars, decVars, objVars, tocVars, ctxVars, utilVars, contextList>>

\* getToc of the version that keeps _toc:
\* if (!this._toc) this._toc = setPositions(tocItems, 1, 0); return this._toc
tocKept(epub, manifest) ==
  IF ~manifest.ok THEN webReturn(epub, Rejection)
  ELSE IF manifest.v.toc = Undefined
    THEN webReturn([epub EXCEPT !._manifest = manifest.v], Rejection)
  ELSE webReturn([tocPositioned(epub, manifest.v) EXCEPT
                    !._toc = Number(webSetPositions(manifest.v.toc.a, 1, 0).endpoints)],
                 Fulfilled(Number(webSetPositions(manifest.v.toc.a, 1, 0).endpoints)))

WebGetTocKept ==
  /\ webEpub # Null /\ webEpub.keepsToc /\ Len(webCalls) < MaxCalls
  /\ IF webEpub._toc # Undefined /\ webEpub._toc # Number(0)
       THEN webReturn(webEpub, Fulfilled(webEpub._toc))
       ELSE tocKept(webEpub, manifestOf(webEpub))
  /\ UNCHANGED <<anVars, lcpVars, decVars, objVars, tocVars, ctxVars, utilVars, contextList>>

\* the toc arrays of a manifest: n nodes in all, nested to any depth, a node
\* without nodes below having no children field or an empty one
RECURSIVE WebForests(_)
WebForests(n) ==
  IF n = 0 THEN {<<>>}
  ELSE UNION {
         {<<[href |-> HrefOf(1), title |-> <<n, k>>, children |-> sub,
             level |-> Undefined, endPoint |-> Undefined, position |-> Undefined]>>
            \o rest :
            sub \in (IF k = 1 THEN {Undefined, Array(<<>>)}
                      ELSE {Array(below) : below \in WebForests(k - 1)}),
            rest \in WebForests(n - k)} : k \in 1..n}

Manifests ==
  {[toc |-> Undefined]}
  \cup {[toc |-> Array(q)] : q \in UNION {WebForests(n) : n \in 0..MaxWebNodes}}

WebInit ==
  /\ \E keepsToc \in BOOLEAN, fetch \in {"ok", "fails"}, served \in Manifests :
       webEpub = [keepsToc |-> keepsToc, fetch |-> fetch, served |-> served,
                  _manifest |-> Undefined, _toc |-> Undefined]
  /\ webCalls = <<>>

InitWeb ==
  WebInit /\ contextList = <<>> /\ LcpIdle /\ AnIdle /\ DecIdle /\ ObjIdle /\ TocIdle
    /\ CtxIdle /\ UtilIdle

NextWeb ==
  \/ WebGetToc
  \/ WebGetTocKept

SpecWeb == InitWeb /\ [][NextWeb]_vars

-----------------------------------------------------------------------------
(* Claims on WebEpub.getToc *)

\* every node is at level depth, a node without nodes below has its position
\* and the positions count the end points in document order from from + 1
RECURSIVE WebPositioned(_, _, _)
WebPositioned(items, depth, from) ==
  IF items = <<>> THEN TRUE
  ELSE LET item == Head(items)
           leaf == item.children = Undefined \/ item.children = Array(<<>>)
       IN  /\ item.level = depth
           /\ IF leaf THEN item.position = from + 1
                      ELSE WebPositioned(item.children.a, depth + 1, from)
           /\ WebPositioned(Tail(items), depth,
                            IF leaf THEN from + 1
                            ELSE webSetPositions(item.children.a, depth + 1, from).endpoints)

\* C29: getToc resolves with an array, the toc nodes of the manifest with
\* level set on each and position on each node without children, and every
\* call, first or repeated, resolves with the same array and values
C29_TocArray ==
  webEpub # Null /\ webEpub.fetch = "ok" /\ webEpub.served.toc # Undefined =>
    \A n \in 1..Len(webCalls) :
      /\ webCalls[n].s = "fulfilled"
      /\ webCalls[n].v.t = "array"
      /\ Len(webCalls[n].v.a) = Len(webEpub.served.toc.a)
      /\ WebPositioned(webCalls[n].v.a, 1, 0)
      /\ webCalls[n].v = webCalls[1].v

====
